---- MODULE Spec2Model ----
(***************************************************************************)
(* SmartTravel: the concierge orchestration (process_request), the         *)
(* itinerary agent (create_itinerary, add_activity) and the budget         *)
(* optimizer (optimize_budget), modelled from the Python sources.          *)
(*                                                                         *)
(* Text (str) is a sequence of one-character strings.  Money is kept in    *)
(* whole currency units where the code multiplies whole prices, and in     *)
(* hundredths of a unit where it multiplies by a percentage weight; that   *)
(* arithmetic is exact.  The currency converter's amounts and rates are    *)
(* binary64 floats, rounded as IEEE 754 rounds them.                       *)
(***************************************************************************)
EXTENDS Integers, Sequences, FiniteSets, TLC

\* ------------------------------------------------------------------ bounds
MaxTravelers == 2
MaxAttractions == 5
MaxAdds == 2
MaxDisruptions == 3
MaxRevisions == 2
MaxFlights == 3
MaxAmounts == 3
MaxSets == 2
MaxOptions == 3

\* ------------------------------------------------------------ text helpers
Digits == <<"0", "1", "2", "3", "4", "5", "6", "7", "8", "9">>

IsDigit(c) == \E i \in 1..10 : Digits[i] = c

DigitVal(c) == (CHOOSE i \in 1..10 : Digits[i] = c) - 1

\* code point of a character (only the characters the model uses)
Ord(c) ==
    CASE c = " " -> 32
      [] c = "-" -> 45
      [] c = "/" -> 47
      [] IsDigit(c) -> 48 + DigitVal(c)
      [] c = ":" -> 58
      [] OTHER -> 120

\* Python's str "<": lexicographic by code point, a proper prefix is smaller
RECURSIVE StrLess(_, _)
StrLess(a, b) ==
    IF b = <<>> THEN FALSE
    ELSE IF a = <<>> THEN TRUE
    ELSE IF Ord(Head(a)) # Ord(Head(b)) THEN Ord(Head(a)) < Ord(Head(b))
    ELSE StrLess(Tail(a), Tail(b))

\* int(s) for a string of digits
RECURSIVE IntOf(_)
IntOf(s) ==
    IF s = <<>> THEN 0
    ELSE 10 * IntOf(SubSeq(s, 1, Len(s) - 1)) + DigitVal(s[Len(s)])

AllDigits(s) == \A i \in 1..Len(s) : IsDigit(s[i])

\* f"{n:02d}" and f"{n:04d}": zero-padded to a minimum width
RECURSIVE DecStr(_)
DecStr(n) == IF n < 10 THEN <<Digits[n + 1]>> ELSE DecStr(n \div 10) \o <<Digits[(n % 10) + 1]>>

RECURSIVE PadLeft(_, _)
PadLeft(s, w) == IF Len(s) >= w THEN s ELSE PadLeft(<<"0">> \o s, w)

Fmt02d(n) == PadLeft(DecStr(n), 2)

Fmt04d(n) == PadLeft(DecStr(n), 4)

\* Python's floor division a // b (b # 0), for either sign of a and b
FloorDiv(a, b) == IF b > 0 THEN a \div b ELSE (-a) \div (-b)

\* --------------------------------------------------- datetime (the library)
IsLeap(y) == (y % 4 = 0) /\ ((y % 100 # 0) \/ (y % 400 = 0))

DaysInMonth(y, m) ==
    IF m = 2 THEN (IF IsLeap(y) THEN 29 ELSE 28)
    ELSE IF m \in {4, 6, 9, 11} THEN 30 ELSE 31

DaysBeforeYear(y) == (y - 1) * 365 + ((y - 1) \div 4) - ((y - 1) \div 100) + ((y - 1) \div 400)

RECURSIVE DaysBeforeMonth(_, _)
DaysBeforeMonth(y, m) == IF m = 1 THEN 0 ELSE DaysBeforeMonth(y, m - 1) + DaysInMonth(y, m - 1)

\* datetime.toordinal
ToOrdinal(dt) == DaysBeforeYear(dt.y) + DaysBeforeMonth(dt.y, dt.m) + dt.d

\* the years the model's dates live in
Years == 2023..2025

\* datetime.fromordinal, as used by "start + timedelta(days=i)"
FromOrdinal(n) ==
    LET y == CHOOSE yy \in Years : DaysBeforeYear(yy) < n /\ n <= DaysBeforeYear(yy + 1)
        r == n - DaysBeforeYear(y)
        m == CHOOSE mm \in 1..12 :
                 DaysBeforeMonth(y, mm) < r /\ r <= DaysBeforeMonth(y, mm) + DaysInMonth(y, mm)
    IN  [y |-> y, m |-> m, d |-> r - DaysBeforeMonth(y, m)]

\* positions of the "-" separators of a text
DashPositions(s) == {i \in 1..Len(s) : s[i] = "-"}

\* datetime.strptime(s, "%Y-%m-%d"): None stands for the ValueError it raises
None == [none |-> TRUE]

Strptime(s) ==
    LET dashes == DashPositions(s) IN
    IF Cardinality(dashes) # 2 THEN None
    ELSE
      LET p1 == CHOOSE i \in dashes : \A j \in dashes : i <= j
          p2 == CHOOSE i \in dashes : \A j \in dashes : j <= i
          ys == SubSeq(s, 1, p1 - 1)
          ms == SubSeq(s, p1 + 1, p2 - 1)
          ds == SubSeq(s, p2 + 1, Len(s))
      IN  IF ~(AllDigits(ys) /\ AllDigits(ms) /\ AllDigits(ds)) THEN None
          ELSE IF Len(ys) # 4 \/ Len(ms) \notin {1, 2} \/ Len(ds) \notin {1, 2} THEN None
          ELSE IF IntOf(ms) \notin 1..12 \/ IntOf(ds) \notin 1..31 THEN None
          ELSE IF IntOf(ys) < 1 \/ IntOf(ds) > DaysInMonth(IntOf(ys), IntOf(ms)) THEN None
          ELSE [y |-> IntOf(ys), m |-> IntOf(ms), d |-> IntOf(ds)]

\* datetime.strftime("%Y-%m-%d")
Strftime(dt) == Fmt04d(dt.y) \o <<"-">> \o Fmt02d(dt.m) \o <<"-">> \o Fmt02d(dt.d)

\* ---------------------------------------------------------------- results
\* a call either returns a value or raises; Raise(e) is the raised exception
Return(v) == [ok |-> TRUE, value |-> v]

Raise(e) == [ok |-> FALSE, error |-> e]

Min2(a, b) == IF a <= b THEN a ELSE b

Max2(a, b) == IF a >= b THEN a ELSE b

\* an optional value that is present (None is the absent one)
Some(v) == [some |-> v]

\* ------------------------------------------------------------ FlightAgent
search_flights(origin, destination, departure_date, passengers) ==
    << [airline |-> "Mock Airlines", departure_city |-> origin, arrival_city |-> destination,
        price |-> 350 * passengers, duration_hours |-> 4, stops |-> 0],
       [airline |-> "Budget Air", departure_city |-> origin, arrival_city |-> destination,
        price |-> 200 * passengers, duration_hours |-> 6, stops |-> 1] >>

\* min(flights, key=...) as Python runs it: one pass from the left that keeps the
\* element seen first unless a later key is strictly smaller; given the keys, the
\* index of the element returned
RECURSIVE ScanMin_keep_last(_, _, _)
ScanMin_keep_last(keys, best, j) ==
    IF j > Len(keys) THEN best
    ELSE ScanMin_keep_last(keys, IF keys[j] <= keys[best] THEN j ELSE best, j + 1)

RECURSIVE ScanMin(_, _, _)
ScanMin(keys, best, j) ==
    IF j > Len(keys) THEN best
    ELSE ScanMin(keys, IF keys[j] < keys[best] THEN j ELSE best, j + 1)

\* get_best_flight (lines 92-116)
get_best_flight(flight_list, preference) ==
    IF flight_list = <<>> THEN None
    ELSE IF preference = "price"
         THEN Some(flight_list[ScanMin([i \in 1..Len(flight_list) |-> flight_list[i].price], 1, 2)])
    ELSE IF preference = "duration"
         THEN Some(flight_list[ScanMin([i \in 1..Len(flight_list) |->
                                           flight_list[i].duration_hours], 1, 2)])
    ELSE IF preference = "stops"
         THEN Some(flight_list[ScanMin([i \in 1..Len(flight_list) |-> flight_list[i].stops], 1, 2)])
    ELSE Some(flight_list[1])

\* ------------------------------------------------------------- HotelAgent
\* guest_rating is kept in tenths (4.8 -> 48)
search_hotels(destination, check_in, check_out, guests) ==
    << [name |-> "Grand Hotel", star_rating |-> 5, price_per_night |-> 250, guest_rating |-> 48],
       [name |-> "City Inn", star_rating |-> 3, price_per_night |-> 95, guest_rating |-> 42],
       [name |-> "Budget Stay", star_rating |-> 2, price_per_night |-> 55, guest_rating |-> 38] >>

\* min(seq, key=...) / max(seq, key=...) of Python, given the sequence of keys:
\* the index of the first element that holds the extreme key
FirstMin(keys) ==
    CHOOSE i \in 1..Len(keys) :
        /\ \A j \in 1..Len(keys) : keys[i] <= keys[j]
        /\ \A j \in 1..(i - 1) : keys[j] > keys[i]

FirstMax(keys) ==
    CHOOSE i \in 1..Len(keys) :
        /\ \A j \in 1..Len(keys) : keys[i] >= keys[j]
        /\ \A j \in 1..(i - 1) : keys[j] < keys[i]

get_best_hotel_by_rating(hotels, preference) ==
    IF hotels = <<>> THEN None
    ELSE hotels[FirstMax([i \in 1..Len(hotels) |-> hotels[i].guest_rating])]

get_best_hotel(hotels, preference) ==
    IF hotels = <<>> THEN None
    ELSE IF preference = "price"
         THEN hotels[FirstMin([i \in 1..Len(hotels) |-> hotels[i].price_per_night])]
    ELSE IF preference = "rating"
         THEN hotels[FirstMax([i \in 1..Len(hotels) |-> hotels[i].guest_rating])]
    ELSE IF preference = "stars"
         THEN hotels[FirstMax([i \in 1..Len(hotels) |-> hotels[i].star_rating])]
    ELSE hotels[1]

calculate_total_cost(hotel, nights, rooms) == hotel.price_per_night * nights * rooms

\* -------------------------------------------------------- AttractionAgent
all_attractions(destination) ==
    << [name |-> <<destination, "Museum of Art">>, category |-> "museum", price |-> 25],
       [name |-> <<destination, "Central Park">>, category |-> "park", price |-> 0],
       [name |-> <<"Historic", destination, "Tower">>, category |-> "landmark", price |-> 15],
       [name |-> <<destination, "Food Market">>, category |-> "food", price |-> 0],
       [name |-> <<destination, "Walking Tour">>, category |-> "tour", price |-> 35] >>

\* categories is None or Some(collection of category names); an empty one is falsy: no filter
discover_attractions(destination, categories) ==
    IF categories = None \/ categories = Some({}) THEN all_attractions(destination)
    ELSE SelectSeq(all_attractions(destination), LAMBDA a : a.category \in categories.some)

RECURSIVE calculate_activities_cost(_)
calculate_activities_cost(attractions) ==
    IF attractions = <<>> THEN 0
    ELSE Head(attractions).price + calculate_activities_cost(Tail(attractions))

\* ---------------------------------------------------------- ItineraryAgent
T0900 == <<"0", "9", ":", "0", "0">>

T1000 == <<"1", "0", ":", "0", "0">>

T1900 == <<"1", "9", ":", "0", "0">>

Breakfast == [time |-> T0900, type |-> "breakfast", description |-> <<"Breakfast at hotel">>]

Dinner == [time |-> T1900, type |-> "dinner", description |-> <<"Dinner at local restaurant">>]

Exploration_at_noon(destination) ==
    [time |-> <<"1", "2", ":", "0", "0">>, type |-> "exploration", description |-> <<"Explore", destination>>]

Exploration(destination) ==
    [time |-> T1000, type |-> "exploration", description |-> <<"Explore", destination>>]

\* f"{hour:02d}:00"
HourText(hour) == Fmt02d(hour) \o <<":", "0", "0">>

\* attractions_list[start_idx:end_idx] (0-based, clamped to the list)
Slice_to_the_end(list, start_idx, end_idx) ==
    IF start_idx >= Len(list) \/ end_idx <= start_idx THEN <<>>
    ELSE SubSeq(list, start_idx + 1, Len(list))

Slice(list, start_idx, end_idx) ==
    IF start_idx >= Len(list) \/ end_idx <= start_idx THEN <<>>
    ELSE SubSeq(list, start_idx + 1, Min2(end_idx, Len(list)))

\* the activities of one day (lines 91-124)
DayActivities_two_hours_apart(destination, day_attractions) ==
    <<Breakfast>>
    \o [j \in 1..Len(day_attractions) |->
          [time |-> HourText(10 + 2 * (j - 1)), type |-> "attraction",
           description |-> <<"Visit", day_attractions[j].name>>]]
    \o (IF day_attractions = <<>> THEN <<Exploration(destination)>> ELSE <<>>)
    \o <<Dinner>>

DayActivities(destination, day_attractions) ==
    <<Breakfast>>
    \o [j \in 1..Len(day_attractions) |->
          [time |-> HourText(10 + 3 * (j - 1)), type |-> "attraction",
           description |-> <<"Visit", day_attractions[j].name>>]]
    \o (IF day_attractions = <<>> THEN <<Exploration(destination)>> ELSE <<>>)
    \o <<Dinner>>

\* start + timedelta(days=i), then strftime (lines 84 and 128)
current_date_off_by_one(start, i) == Strftime(FromOrdinal(ToOrdinal(start) + i + 1))

current_date(start, i) == Strftime(FromOrdinal(ToOrdinal(start) + i))

create_itinerary(destination, start_date, end_date, attractions) ==
    LET start == Strptime(start_date)
        end == Strptime(end_date)
    IN
    IF start = None \/ end = None THEN Raise("ValueError")
    ELSE
      LET num_days == (ToOrdinal(end) - ToOrdinal(start)) + 1
          attractions_list == attractions
      IN
      IF attractions_list # <<>> /\ num_days = 0 THEN Raise("ZeroDivisionError")
      ELSE
        LET attractions_per_day ==
                IF attractions_list # <<>>
                THEN Max2(1, FloorDiv(Len(attractions_list), num_days))
                ELSE 2
            day(i) ==
                LET start_idx == i * attractions_per_day
                    end_idx == start_idx + attractions_per_day
                IN [day_number |-> i + 1,
                    date |-> current_date(start, i),
                    activities |-> DayActivities(destination,
                                                 Slice(attractions_list, start_idx, end_idx))]
        IN Return([destination |-> destination,
                   start_date |-> start_date,
                   end_date |-> end_date,
                   days |-> [k \in 1..Max2(num_days, 0) |-> day(k - 1)],
                   summary |-> <<num_days, "-day trip to", destination>>])

\* key=lambda x: x.get("time", "00:00")
T0000 == <<"0", "0", ":", "0", "0">>

SortKey(x) == IF "time" \in DOMAIN x THEN x.time ELSE T0000

\* list.sort(key=...) is stable: x goes after every element whose key is <= its key
RECURSIVE InsertSorted_before_equal(_, _)
InsertSorted_before_equal(sorted, x) ==
    IF sorted = <<>> THEN <<x>>
    ELSE IF ~StrLess(SortKey(Head(sorted)), SortKey(x)) THEN <<x>> \o sorted
    ELSE <<Head(sorted)>> \o InsertSorted_before_equal(Tail(sorted), x)

RECURSIVE InsertSorted(_, _)
InsertSorted(sorted, x) ==
    IF sorted = <<>> THEN <<x>>
    ELSE IF StrLess(SortKey(x), SortKey(Head(sorted))) THEN <<x>> \o sorted
    ELSE <<Head(sorted)>> \o InsertSorted(Tail(sorted), x)

SortByTime_unsorted(list) == list

RECURSIVE SortByTime(_)
SortByTime(list) ==
    IF list = <<>> THEN <<>>
    ELSE InsertSorted(SortByTime(SubSeq(list, 1, Len(list) - 1)), list[Len(list)])

\* without the lower bound, Python's negative index reaches a day from the end
add_activity_no_lower_bound(itin, day_number, activity) ==
    IF day_number <= Len(itin.days) /\ day_number - 1 >= -Len(itin.days)
    THEN LET idx == IF day_number >= 1 THEN day_number ELSE Len(itin.days) + day_number
         IN [itin EXCEPT !.days[idx].activities = SortByTime(Append(@, activity))]
    ELSE itin

add_activity(itin, day_number, activity) ==
    IF 1 <= day_number /\ day_number <= Len(itin.days)
    THEN [itin EXCEPT !.days[day_number].activities = SortByTime(Append(@, activity))]
    ELSE itin

\* a dict is the set of its <<key, value>> items; dict.get(key) is None when the key is absent
DictGet(dict, key) ==
    IF \E item \in dict : item[1] = key
    THEN Some((CHOOSE item \in dict : item[1] = key)[2])
    ELSE None

\* dict.get(key, default)
DictGetOr(dict, key, default) ==
    IF DictGet(dict, key) = None THEN default ELSE DictGet(dict, key).some

\* --------------------------------------------------- BudgetOptimizerAgent
\* DEFAULT_ALLOCATION, in percent
DEFAULT_ALLOCATION ==
    { <<"accommodation", 35>>, <<"transportation", 25>>, <<"food", 20>>,
      <<"activities", 15>>, <<"emergency", 5>> }

BudgetBreakdown_no_post_init(total_budget, accommodation, transportation, food, activities, emergency_fund) ==
    [total_budget |-> total_budget,
     accommodation |-> accommodation,
     transportation |-> transportation,
     food |-> food,
     activities |-> activities,
     emergency_fund |-> emergency_fund,
     remaining |-> 0]

\* the dataclass constructor with __post_init__; every amount is in hundredths
BudgetBreakdown(total_budget, accommodation, transportation, food, activities, emergency_fund) ==
    LET allocated == accommodation + transportation + food + activities + emergency_fund
    IN [total_budget |-> total_budget,
        accommodation |-> accommodation,
        transportation |-> transportation,
        food |-> food,
        activities |-> activities,
        emergency_fund |-> emergency_fund,
        remaining |-> total_budget - allocated]

\* total_budget in whole units, weights in percent: total_budget * weight is in hundredths
optimize_budget(total_budget, duration_days, priorities) ==
    LET allocation_weights == IF priorities # None /\ priorities.some # {}
                              THEN priorities.some ELSE DEFAULT_ALLOCATION
    IN BudgetBreakdown(100 * total_budget,
                       total_budget * DictGetOr(allocation_weights, "accommodation", 35),
                       total_budget * DictGetOr(allocation_weights, "transportation", 25),
                       total_budget * DictGetOr(allocation_weights, "food", 20),
                       total_budget * DictGetOr(allocation_weights, "activities", 15),
                       total_budget * DictGetOr(allocation_weights, "emergency", 5))

\* ------------------------------------------------------ DisruptionAgent
\* the Disruption dataclass (detected_at, a wall-clock stamp, is left out)
Disruption(disruption_type, severity, affected_date, description, affected_components) ==
    [disruption_type |-> disruption_type, severity |-> severity,
     affected_date |-> affected_date, description |-> description,
     affected_components |-> affected_components]

\* severity_weights.get(d.severity, 0)
severity_weights_medium_as_high(severity) ==
    CASE severity = "low" -> 10
      [] severity = "medium" -> 60
      [] severity = "high" -> 60
      [] severity = "critical" -> 100
      [] OTHER -> 0

severity_weights(severity) ==
    CASE severity = "low" -> 10
      [] severity = "medium" -> 30
      [] severity = "high" -> 60
      [] severity = "critical" -> 100
      [] OTHER -> 0

\* sum(severity_weights.get(d.severity, 0) for d in disruptions)
RECURSIVE total_score(_)
total_score(disruptions) ==
    IF disruptions = <<>> THEN 0
    ELSE severity_weights(Head(disruptions).severity) + total_score(Tail(disruptions))

calculate_risk_score_uncapped(disruptions) ==
    IF disruptions = <<>> THEN 0 ELSE total_score(disruptions)

calculate_risk_score(disruptions) ==
    IF disruptions = <<>> THEN 0 ELSE Min2(total_score(disruptions), 100)

\* Python truth of a dict or None: None and {} are false
Truthy(dict) == dict # None /\ dict.some # {}

\* any(d.severity in [HIGH, CRITICAL] for d in disruptions)
requires_replanning_from_medium(disruptions) ==
    \E i \in 1..Len(disruptions) : disruptions[i].severity \in {"medium", "high", "critical"}

requires_replanning(disruptions) ==
    \E i \in 1..Len(disruptions) : disruptions[i].severity \in {"high", "critical"}

\* _generate_recommendations (lines 263-296)
RECURSIVE generate_recommendations(_)
generate_recommendations(disruptions) ==
    IF disruptions = <<>> THEN <<>>
    ELSE (CASE Head(disruptions).disruption_type = "flight_cancelled" ->
                 << <<"Contact airline immediately for rebooking options">>,
                    <<"Consider flexible accommodation if arrival is delayed">> >>
            [] Head(disruptions).disruption_type = "severe_weather" ->
                 << <<"Have backup indoor activities planned">>,
                    <<"Check local weather alerts regularly">> >>
            [] Head(disruptions).disruption_type = "attraction_closed" ->
                 << <<"Research alternative attractions in the area">> >>
            [] OTHER -> <<>>)
         \o generate_recommendations(Tail(disruptions))

\* itinerary.get("start_date", ""): the itinerary is a dict, written as a record
\* whose fields are its keys
StartDateOf(itin) == IF "start_date" \in DOMAIN itin THEN itin.start_date ELSE <<>>

\* detect_disruptions (lines 86-159); live_data is None or a dict
detect_disruptions(itin, live_data) ==
    LET live == IF Truthy(live_data) THEN live_data.some ELSE {}
        cancelled ==
            IF Truthy(live_data) /\ DictGetOr(live, "flight_cancelled", FALSE)
            THEN <<Disruption("flight_cancelled", "high", StartDateOf(itin),
                              <<"Outbound flight has been cancelled">>,
                              <<"flight", "day_1_activities">>)>>
            ELSE <<>>
        delayed ==
            IF Truthy(live_data) /\ DictGetOr(live, "flight_delayed_hours", 0) > 3
            THEN <<Disruption("flight_delayed", "medium", StartDateOf(itin),
                              <<"Flight delayed by", DictGet(live, "flight_delayed_hours").some,
                                "hours">>,
                              <<"flight", "day_1_activities">>)>>
            ELSE <<>>
        weather ==
            IF Truthy(live_data) /\ Truthy(DictGet(live, "severe_weather"))
            THEN LET weather_info == DictGet(live, "severe_weather").some IN
                 <<Disruption("severe_weather", "medium",
                              DictGetOr(weather_info, "date", <<>>),
                              DictGetOr(weather_info, "description",
                                        <<"Severe weather expected">>),
                              <<"outdoor_activities">>)>>
            ELSE <<>>
        disruptions == cancelled \o delayed \o weather
    IN [disruptions |-> disruptions,
        risk_score |-> calculate_risk_score(disruptions),
        recommendations |-> generate_recommendations(disruptions),
        requires_replanning |-> requires_replanning(disruptions)]

\* original_itinerary.get("daily_schedule", []) and .get("flights", [])
DailyScheduleOf(itin) == IF "daily_schedule" \in DOMAIN itin THEN itin.daily_schedule ELSE <<>>

FlightsOf(itin) == IF "flights" \in DOMAIN itin THEN itin.flights ELSE <<>>

\* _find_alternative_flights (lines 298-316)
find_alternative_flights(original_flights) ==
    <<[airline |-> "Alternative Airways", departure |-> <<"2024-06-01 14:00">>,
       arrival |-> <<"2024-06-01 16:30">>, price |-> 450, note |-> <<"Rebooked flight">>]>>

\* The day dicts of a schedule are objects: heap[a] is the dict at address a, and a
\* daily_schedule list is the sequence of the addresses of its day dicts.
\* list[1:]
Rest(list) == IF list = <<>> THEN <<>> ELSE Tail(list)

\* the schedule a list of day dicts shows when it is read
Deref(heap, list) == [i \in 1..Len(list) |-> heap[list[i]]]

\* _adjust_schedule_for_delay (lines 318-332): daily_schedule.copy() is a new list
\* of the same day dicts, so the assignment to adjusted[0]["activities"] changes
\* the dict the original daily_schedule holds as well
adjust_schedule_for_delay(heap, daily_schedule) ==
    LET adjusted == daily_schedule IN
    [heap |-> IF adjusted # <<>>
              THEN [heap EXCEPT ![adjusted[1]].activities = Rest(@)]
              ELSE heap,
     value |-> adjusted]

\* a str in a list that otherwise holds dicts is written [str |-> s]
IndoorActivities ==
    <<[str |-> "Visit local museum"], [str |-> "Explore art gallery"],
      [str |-> "Indoor market tour"], [str |-> "Cooking class"]>>

\* _replace_with_indoor_activities (lines 334-360): again a copy of the list only
replace_with_indoor_activities(heap, daily_schedule, affected_date) ==
    LET adjusted == daily_schedule IN
    [heap |-> [a \in DOMAIN heap |->
                 IF (\E i \in 1..Len(adjusted) : adjusted[i] = a) /\ heap[a].date = affected_date
                 THEN [day |-> heap[a].day, date |-> heap[a].date,
                       activities |-> IndoorActivities,
                       weather_note |-> <<"Schedule adjusted for indoor activities">>]
                 ELSE heap[a]],
     value |-> adjusted]

\* " | ".join(notes)
RECURSIVE JoinNotes(_)
JoinNotes(notes) ==
    IF Len(notes) = 1 THEN notes[1]
    ELSE notes[1] \o <<" | ">> \o JoinNotes(Tail(notes))

\* the loop of generate_revised_itinerary (lines 184-221) from the state acc on
RECURSIVE ReviseFor(_, _, _)
ReviseFor(disruptions, original_itinerary, acc) ==
    IF disruptions = <<>> THEN acc
    ELSE
      LET disruption == Head(disruptions)
          change(type, description) ==
              [type |-> type, description |-> description,
               affected_date |-> disruption.affected_date]
          next ==
            CASE disruption.disruption_type = "flight_cancelled" ->
                   [acc EXCEPT
                      !.new_flights = find_alternative_flights(FlightsOf(original_itinerary)),
                      !.changes = Append(@, change("flight_replacement",
                                                   <<"Booked alternative flight">>)),
                      !.additional_cost = @ + 200,
                      !.notes = Append(@, <<"Flight rebooked to next available departure">>)]
              [] disruption.disruption_type = "flight_delayed" ->
                   LET r == adjust_schedule_for_delay(acc.heap,
                                                      DailyScheduleOf(original_itinerary)) IN
                   [acc EXCEPT
                      !.heap = r.heap,
                      !.new_daily_schedule = r.value,
                      !.changes = Append(@, change("schedule_adjustment",
                                                   <<"Day 1 activities rescheduled">>)),
                      !.notes = Append(@, <<"First day activities postponed to accommodate delay">>)]
              [] disruption.disruption_type = "severe_weather" ->
                   LET r == replace_with_indoor_activities(acc.heap,
                                                           DailyScheduleOf(original_itinerary),
                                                           disruption.affected_date) IN
                   [acc EXCEPT
                      !.heap = r.heap,
                      !.new_daily_schedule = r.value,
                      !.changes = Append(@, change("activity_replacement",
                               <<"Outdoor activities replaced with indoor alternatives">>)),
                      !.notes = Append(@,
                               <<"Moved outdoor activities to indoor venues due to weather">>)]
              [] OTHER -> acc
      IN ReviseFor(Tail(disruptions), original_itinerary, next)

\* generate_revised_itinerary (lines 161-234): the RevisedItinerary returned, and
\* the day dicts as the call leaves them
generate_revised_itinerary(heap, original_itinerary, disruption_report) ==
    LET end == ReviseFor(disruption_report.disruptions, original_itinerary,
                         [heap |-> heap, changes |-> <<>>, new_flights |-> <<>>,
                          new_daily_schedule |-> <<>>, additional_cost |-> 0, notes |-> <<>>])
    IN [heap |-> end.heap,
        value |-> [original_itinerary |-> original_itinerary,
                   disruptions_addressed |-> disruption_report.disruptions,
                   changes |-> end.changes,
                   new_flights |-> end.new_flights,
                   new_accommodations |-> <<>>,
                   new_daily_schedule |-> end.new_daily_schedule,
                   estimated_additional_cost |-> end.additional_cost,
                   revision_notes |-> IF end.notes # <<>> THEN JoinNotes(end.notes)
                                      ELSE <<"Minor adjustments made">>]]

\* ------------------------------------------------- binary64 arithmetic
\* Python floats are IEEE 754 binary64.  A natural number of any size is the
\* sequence of its digits in base 2^15, lowest first, without leading zeros; a
\* positive float is [m, e]: a 53-bit significand m and an exponent e, for m * 2^e;
\* zero is the float with an empty significand.  Amounts and rates here are
\* non-negative and far from overflow and underflow.
LimbBase == 2 ^ 15

\* drop the zero digits at the high end
RECURSIVE BigNorm(_)
BigNorm(a) ==
    IF a = <<>> THEN <<>>
    ELSE IF a[Len(a)] = 0 THEN BigNorm(SubSeq(a, 1, Len(a) - 1))
    ELSE a

RECURSIVE BigFromInt(_)
BigFromInt(n) ==
    IF n = 0 THEN <<>> ELSE <<n % LimbBase>> \o BigFromInt(n \div LimbBase)

Limb(a, i) == IF i <= Len(a) THEN a[i] ELSE 0

RECURSIVE BigAddFrom(_, _, _, _)
BigAddFrom(a, b, i, carry) ==
    IF i > Len(a) /\ i > Len(b)
    THEN (IF carry = 0 THEN <<>> ELSE <<carry>>)
    ELSE LET t == Limb(a, i) + Limb(b, i) + carry
         IN <<t % LimbBase>> \o BigAddFrom(a, b, i + 1, t \div LimbBase)

BigAdd(a, b) == BigAddFrom(a, b, 1, 0)

\* a - b for a >= b
RECURSIVE BigSubFrom(_, _, _, _)
BigSubFrom(a, b, i, borrow) ==
    IF i > Len(a) THEN <<>>
    ELSE LET t == Limb(a, i) - Limb(b, i) - borrow
         IN IF t < 0 THEN <<t + LimbBase>> \o BigSubFrom(a, b, i + 1, 1)
            ELSE <<t>> \o BigSubFrom(a, b, i + 1, 0)

BigSub(a, b) == BigNorm(BigSubFrom(a, b, 1, 0))

\* a < b, comparing from the high end
RECURSIVE BigLessFrom(_, _, _)
BigLessFrom(a, b, i) ==
    IF i = 0 THEN FALSE
    ELSE IF a[i] # b[i] THEN a[i] < b[i]
    ELSE BigLessFrom(a, b, i - 1)

BigLess(a, b) ==
    IF Len(a) # Len(b) THEN Len(a) < Len(b) ELSE BigLessFrom(a, b, Len(a))

\* a times one digit
RECURSIVE BigMulLimbFrom(_, _, _, _)
BigMulLimbFrom(a, digit, i, carry) ==
    IF i > Len(a) THEN (IF carry = 0 THEN <<>> ELSE <<carry>>)
    ELSE LET t == a[i] * digit + carry
         IN <<t % LimbBase>> \o BigMulLimbFrom(a, digit, i + 1, t \div LimbBase)

RECURSIVE BigMulFrom(_, _, _)
BigMulFrom(a, b, j) ==
    IF j > Len(b) THEN <<>>
    ELSE BigAdd(BigMulLimbFrom(a, b[j], 1, 0), <<0>> \o BigMulFrom(a, b, j + 1))

BigMul(a, b) == BigNorm(BigMulFrom(a, b, 1))

BigDouble(a) == BigAdd(a, a)

BigOdd(a) == a # <<>> /\ a[1] % 2 = 1

RECURSIVE IntBitLen(_)
IntBitLen(n) == IF n = 0 THEN 0 ELSE 1 + IntBitLen(n \div 2)

BigBitLen(a) == IF a = <<>> THEN 0 ELSE 15 * (Len(a) - 1) + IntBitLen(a[Len(a)])

\* 2^s
BigPow2(s) == [i \in 1..(s \div 15 + 1) |-> IF i = s \div 15 + 1 THEN 2 ^ (s % 15) ELSE 0]

\* a * 2^s
BigShl(a, s) == BigMul(a, BigPow2(s))

\* a \div 2^s
BigShr(a, s) ==
    LET limbs == s \div 15
        bits == s % 15
    IN BigNorm([i \in 1..(Len(a) - limbs) |->
                  (a[i + limbs] \div 2 ^ bits)
                  + (Limb(a, i + limbs + 1) % 2 ^ bits) * 2 ^ (15 - bits)])

FZero == [m |-> <<>>, e |-> 0]

\* n * 2^e with n made 53 bits long by s zero bits at the low end
Widen(n, e, s) == [m |-> BigShl(n, s), e |-> e - s]

\* the low s bits of n
LowBits(n, s) == BigSub(n, BigShl(BigShr(n, s), s))

\* round to nearest, ties to even: up when the bits cut off (rest, and after them
\* a little more when sticky) are more than half a unit of the bits kept, or are
\* exactly half a unit and the bits kept are odd
RoundsUp(kept, rest, half, sticky) ==
    \/ BigLess(half, rest)
    \/ rest = half /\ (sticky \/ BigOdd(kept))

\* a significand that rounding up made 54 bits long is 2^53: one bit less
Carry(m, e) == IF BigBitLen(m) > 53 THEN [m |-> BigShr(m, 1), e |-> e + 1] ELSE [m |-> m, e |-> e]

\* n, longer than 53 bits by s, cut to 53 bits and rounded
RoundOff(n, e, sticky, s) ==
    IF RoundsUp(BigShr(n, s), LowBits(n, s), BigPow2(s - 1), sticky)
    THEN Carry(BigAdd(BigShr(n, s), <<1>>), e + s)
    ELSE [m |-> BigShr(n, s), e |-> e + s]

\* The binary64 nearest to a positive real, ties to even.  The real is n * 2^e for
\* a natural n > 0, or, when sticky, a little more than that (by less than 2^e; n
\* then has at least two bits more than the 53 kept).
RoundToDouble(n, e, sticky) ==
    IF BigBitLen(n) <= 53 THEN Widen(n, e, 53 - BigBitLen(n))
    ELSE RoundOff(n, e, sticky, BigBitLen(n) - 53)

\* u * v
FMul(u, v) ==
    IF u.m = <<>> \/ v.m = <<>> THEN FZero
    ELSE RoundToDouble(BigMul(u.m, v.m), u.e + v.e, FALSE)

\* long division, one quotient bit per step: from the quotient q and remainder r
\* of some n by d to those of 2 * n by d
DivStep(st, d) ==
    IF BigLess(BigDouble(st.r), d) THEN [q |-> BigDouble(st.q), r |-> BigDouble(st.r)]
    ELSE [q |-> BigAdd(BigDouble(st.q), <<1>>), r |-> BigSub(BigDouble(st.r), d)]

\* k >= 1 more steps, half of them at a time; once the remainder is 0 the
\* remaining quotient bits are 0
RECURSIVE DivSteps(_, _, _)
DivSteps(st, d, k) ==
    IF k = 1 THEN DivStep(st, d)
    ELSE LET half == DivSteps(st, d, k \div 2)
         IN IF half.r = <<>> THEN [q |-> BigShl(half.q, k - k \div 2), r |-> <<>>]
            ELSE DivSteps(half, d, k - k \div 2)

\* quotient and remainder of one 53-bit significand by another
DivStart(n, d) == IF BigLess(n, d) THEN [q |-> <<>>, r |-> n] ELSE [q |-> <<1>>, r |-> BigSub(n, d)]

\* the quotient st.q, with more to come when the remainder is not 0, rounded
RoundQuotient(st, e) == RoundToDouble(st.q, e, st.r # <<>>)

\* u / v for v > 0: 55 more bits of the quotient of the significands, then rounded
FDiv(u, v) ==
    IF u.m = <<>> THEN FZero
    ELSE RoundQuotient(DivSteps(DivStart(u.m, v.m), v.m, 55), u.e - v.e - 55)

\* float(n) for a natural n below 2^31: exact
FromInt(n) == IF n = 0 THEN FZero ELSE Widen(BigFromInt(n), 0, 53 - BigBitLen(BigFromInt(n)))

\* the float a decimal literal n/d denotes (d a power of ten): the binary64
\* nearest to the fraction, which is what dividing the two exact floats gives
Decimal(n, d) == FDiv(FromInt(n), FromInt(d))

\* u < v, for floats that are not negative
FLess(u, v) ==
    IF u.m = <<>> THEN v.m # <<>>
    ELSE IF v.m = <<>> THEN FALSE
    ELSE IF u.e # v.e THEN u.e < v.e
    ELSE BigLess(u.m, v.m)

\* the significand of u when the unit is 2^e, e at most u.e
Aligned(u, e) == IF u.m = <<>> THEN <<>> ELSE BigShl(u.m, u.e - e)

\* a natural n * 2^e as a float
RoundNatural(n, e) == IF n = <<>> THEN FZero ELSE RoundToDouble(n, e, FALSE)

\* u + v
FAdd(u, v) ==
    IF u.m = <<>> THEN v
    ELSE IF v.m = <<>> THEN u
    ELSE RoundNatural(BigAdd(Aligned(u, Min2(u.e, v.e)), Aligned(v, Min2(u.e, v.e))), Min2(u.e, v.e))

\* u - v for u >= v
FSub(u, v) ==
    IF v.m = <<>> THEN u
    ELSE RoundNatural(BigSub(Aligned(u, Min2(u.e, v.e)), Aligned(v, Min2(u.e, v.e))), Min2(u.e, v.e))

\* u - v for either order: a float that may be negative is its sign and its size
FSubSigned(u, v) ==
    IF FLess(u, v) THEN [negative |-> TRUE, size |-> FSub(v, u)]
    ELSE [negative |-> FALSE, size |-> FSub(u, v)]

\* ------------------------------------------------ CurrencyConverterAgent
\* str.upper(), for the ASCII letters
LowerLetters == <<"a", "b", "c", "d", "e", "f", "g", "h", "i", "j", "k", "l", "m", "n", "o", "p", "q", "r", "s", "t", "u", "v", "w", "x", "y", "z">>

UpperLetters == <<"A", "B", "C", "D", "E", "F", "G", "H", "I", "J", "K", "L", "M", "N", "O", "P", "Q", "R", "S", "T", "U", "V", "W", "X", "Y", "Z">>

UpperChar(c) ==
    IF \E i \in 1..Len(LowerLetters) : LowerLetters[i] = c
    THEN UpperLetters[CHOOSE i \in 1..Len(LowerLetters) : LowerLetters[i] = c]
    ELSE c

Upper(s) == [i \in 1..Len(s) |-> UpperChar(s[i])]

\* the rates to INR; a float literal is written as the decimal fraction <<n, d>>
\* it spells, 83.12 as <<8312, 100>>
EXCHANGE_RATES ==
    { <<<<"U", "S", "D">>, <<8312, 100>>>>,
      <<<<"E", "U", "R">>, <<9045, 100>>>>,
      <<<<"G", "B", "P">>, <<10532, 100>>>>,
      <<<<"J", "P", "Y">>, <<56, 100>>>>,
      <<<<"I", "N", "R">>, <<100, 100>>>>,
      <<<<"A", "U", "D">>, <<5423, 100>>>>,
      <<<<"C", "A", "D">>, <<6145, 100>>>>,
      <<<<"C", "H", "F">>, <<9567, 100>>>>,
      <<<<"C", "N", "Y">>, <<1154, 100>>>>,
      <<<<"A", "E", "D">>, <<2263, 100>>>>,
      <<<<"S", "G", "D">>, <<6189, 100>>>>,
      <<<<"M", "Y", "R">>, <<1867, 100>>>>,
      <<<<"T", "H", "B">>, <<235, 100>>>>,
      <<<<"K", "R", "W">>, <<63, 1000>>>> }

\* the float a literal denotes
FloatOf(literal) == Decimal(literal[1], literal[2])

\* the CurrencyConversion convert returns (its conversion_date is left out)
convert_multiplying(amount, from_currency, to_currency) ==
    LET from_upper == Upper(from_currency)
        to_upper == Upper(to_currency)
        from_rate == FloatOf(DictGetOr(EXCHANGE_RATES, from_upper, <<1, 1>>))
        to_rate == FloatOf(DictGetOr(EXCHANGE_RATES, to_upper, <<1, 1>>))
        amount_in_inr == FMul(amount, from_rate)
    IN [original_amount |-> amount,
        original_currency |-> from_upper,
        converted_amount |-> FMul(amount_in_inr, to_rate),
        converted_currency |-> to_upper,
        exchange_rate |-> FDiv(from_rate, to_rate)]

convert(amount, from_currency, to_currency) ==
    LET from_upper == Upper(from_currency)
        to_upper == Upper(to_currency)
        from_rate == FloatOf(DictGetOr(EXCHANGE_RATES, from_upper, <<1, 1>>))
        to_rate == FloatOf(DictGetOr(EXCHANGE_RATES, to_upper, <<1, 1>>))
        amount_in_inr == FMul(amount, from_rate)
    IN [original_amount |-> amount,
        original_currency |-> from_upper,
        converted_amount |-> FDiv(amount_in_inr, to_rate),
        converted_currency |-> to_upper,
        exchange_rate |-> FDiv(from_rate, to_rate)]

\* the ExchangeRate get_exchange_rate returns (its last_updated is left out)
get_exchange_rate_inverted(from_currency, to_currency) ==
    LET from_upper == Upper(from_currency)
        to_upper == Upper(to_currency)
        from_rate == FloatOf(DictGetOr(EXCHANGE_RATES, from_upper, <<1, 1>>))
        to_rate == FloatOf(DictGetOr(EXCHANGE_RATES, to_upper, <<1, 1>>))
    IN [from_currency |-> from_upper, to_currency |-> to_upper, rate |-> FDiv(to_rate, from_rate)]

get_exchange_rate(from_currency, to_currency) ==
    LET from_upper == Upper(from_currency)
        to_upper == Upper(to_currency)
        from_rate == FloatOf(DictGetOr(EXCHANGE_RATES, from_upper, <<1, 1>>))
        to_rate == FloatOf(DictGetOr(EXCHANGE_RATES, to_upper, <<1, 1>>))
    IN [from_currency |-> from_upper, to_currency |-> to_upper, rate |-> FDiv(from_rate, to_rate)]

\* ------------------------------ BudgetOptimizerAgent, the options it picks
\* option.get(key, default), an option being a dict; prices and ratings are floats
OptionGet(option, key, default) == IF key \in DOMAIN option THEN option[key] ELSE default

\* sum(opt.get("price", 0) for opt in options)
RECURSIVE SumPrices(_)
SumPrices(options) ==
    IF options = <<>> THEN FZero
    ELSE FAdd(SumPrices(SubSeq(options, 1, Len(options) - 1)), OptionGet(options[Len(options)], "price", FZero))

\* sum(...) / len(options) if options else budget
AveragePrice(options, budget) ==
    IF options # <<>> THEN FDiv(SumPrices(options), FromInt(Len(options))) ELSE budget

\* _determine_tier
determine_tier(price, avg_price) ==
    IF FLess(price, FMul(avg_price, Decimal(7, 10))) THEN "budget"
    ELSE IF FLess(FMul(avg_price, Decimal(13, 10)), price) THEN "luxury"
    ELSE "mid_range"

\* the OptimizedOption dataclass
OptimizedOption(category, name, price, value_score, savings, features, tier) ==
    [category |-> category, name |-> name, price |-> price, value_score |-> value_score,
     savings |-> savings, features |-> features, tier |-> tier]

\* (rating * (len(features) + 1)) / (price if price > 0 else 1)
ValueScore(rating, features, price) ==
    FDiv(FMul(rating, FromInt(Len(features) + 1)), IF price.m # <<>> THEN price ELSE FromInt(1))

\* max(0, avg_price - price)
Savings(avg_price, price) == IF FLess(avg_price, price) THEN FZero ELSE FSub(avg_price, price)

\* the OptimizedOption the loop appends for one option within budget
Optimized(option, avg_price, category) ==
    OptimizedOption(category,
                    OptionGet(option, "name", "Unknown"),
                    OptionGet(option, "price", FZero),
                    ValueScore(OptionGet(option, "rating", FromInt(3)), OptionGet(option, "features", <<>>), OptionGet(option, "price", FZero)),
                    Savings(avg_price, OptionGet(option, "price", FZero)),
                    OptionGet(option, "features", <<>>),
                    determine_tier(OptionGet(option, "price", FZero), avg_price))

\* the loop over options: an option priced above budget is skipped
RECURSIVE WithinBudget(_, _, _, _)
WithinBudget(options, budget, avg_price, category) ==
    IF options = <<>> THEN <<>>
    ELSE IF FLess(budget, OptionGet(options[Len(options)], "price", FZero))
         THEN WithinBudget(SubSeq(options, 1, Len(options) - 1), budget, avg_price, category)
         ELSE Append(WithinBudget(SubSeq(options, 1, Len(options) - 1), budget, avg_price, category),
                     Optimized(options[Len(options)], avg_price, category))

\* where a stable sort on value_score, highest first, puts x among those before it
RECURSIVE InsertByValue(_, _)
InsertByValue(sorted, x) ==
    IF sorted = <<>> THEN <<x>>
    ELSE IF FLess(sorted[1].value_score, x.value_score) THEN <<x>> \o sorted
    ELSE <<sorted[1]>> \o InsertByValue(Tail(sorted), x)

\* optimized.sort(key=lambda x: x.value_score, reverse=True)
RECURSIVE SortByValue(_)
SortByValue(list) ==
    IF list = <<>> THEN <<>>
    ELSE InsertByValue(SortByValue(SubSeq(list, 1, Len(list) - 1)), list[Len(list)])

find_best_value_options(options, budget, category) ==
    SortByValue(WithinBudget(options, budget, AveragePrice(options, budget), category))

\* total_budget / duration_days if duration_days > 0 else 0
DailyBudget(total_budget, duration_days) ==
    IF duration_days > 0 THEN FDiv(FromInt(total_budget), FromInt(duration_days)) ELSE FZero

\* _estimate_budget_tier
estimate_budget_tier(total_budget, duration_days) ==
    IF FLess(DailyBudget(total_budget, duration_days), FromInt(100)) THEN "budget"
    ELSE IF FLess(FromInt(300), DailyBudget(total_budget, duration_days)) THEN "luxury"
    ELSE "mid_range"

generate_money_saving_tips(destination, duration_days, budget_tier) ==
    << "Book flights and accommodation in advance for better rates",
       "Travel during off-peak season for significant savings",
       "Use public transportation instead of taxis or rideshares" >>
    \o (CASE budget_tier = "budget" ->
               << "Consider hostels or budget hotels for accommodation",
                  "Cook some meals instead of dining out for every meal",
                  "Look for free walking tours and attractions",
                  "Buy groceries from local markets instead of tourist areas" >>
          [] budget_tier = "mid_range" ->
               << "Mix budget and mid-range accommodation for balance",
                  "Have lunch at restaurants instead of dinner for lower prices",
                  "Book combination tickets for multiple attractions",
                  "Use hotel loyalty programs for perks and discounts" >>
          [] OTHER -> <<>>)
    \o (IF duration_days >= 7
        THEN << "Consider weekly rental rates for accommodation",
                "Buy a multi-day transit pass for unlimited travel" >>
        ELSE <<>>)

\* breakdown.<category> as the float the code holds: total_budget * weight
Allocated(total_budget, category) ==
    FMul(FromInt(total_budget), Decimal(DictGet(DEFAULT_ALLOCATION, category).some, 100))

\* best_options[:3]
Top3(best) == SubSeq(best, 1, Min2(3, Len(best)))

\* what the loop adds for one category: nothing when the category is not in available_options
TopOfCategory(total_budget, category, available_options) ==
    IF DictGet(available_options, category) = None THEN <<>>
    ELSE Top3(find_best_value_options(DictGet(available_options, category).some, Allocated(total_budget, category), category))

\* the three categories in the loop's order
TopOptions(total_budget, available_options) ==
    TopOfCategory(total_budget, "accommodation", available_options)
    \o TopOfCategory(total_budget, "transportation", available_options)
    \o TopOfCategory(total_budget, "activities", available_options)

\* the BudgetOptimizationResult dataclass
BudgetOptimizationResult(breakdown_, optimized_options, money_saving_tips, estimated_total, potential_savings) ==
    [breakdown |-> breakdown_, optimized_options |-> optimized_options,
     money_saving_tips |-> money_saving_tips, estimated_total |-> estimated_total,
     potential_savings |-> potential_savings]

\* the end of optimize_itinerary, once estimated_total is summed
Estimated(total_budget, duration_days, destination, optimized_options, estimated_total) ==
    BudgetOptimizationResult(
        optimize_budget(total_budget, duration_days, None),
        optimized_options,
        generate_money_saving_tips(destination, duration_days, estimate_budget_tier(total_budget, duration_days)),
        estimated_total,
        FSubSigned(FromInt(total_budget), estimated_total))

\* optimize_itinerary from the tips on, once the options are picked
Picked(total_budget, duration_days, destination, optimized_options) ==
    Estimated(total_budget, duration_days, destination, optimized_options, SumPrices(optimized_options))

optimize_itinerary(total_budget, duration_days, destination, available_options) ==
    Picked(total_budget, duration_days, destination, TopOptions(total_budget, available_options))

\* ------------------------------------------------------ TravelConcierge
calculate_duration_lenient(start_date, end_date) ==
    LET start == Strptime(start_date)
        end == Strptime(end_date)
    IN IF start = None \/ end = None THEN Some(1)
       ELSE Some((ToOrdinal(end) - ToOrdinal(start)) + 1)

calculate_duration_exclusive(start_date, end_date) ==
    LET start == Strptime(start_date)
        end == Strptime(end_date)
    IN IF start = None \/ end = None THEN None
       ELSE Some(ToOrdinal(end) - ToOrdinal(start))

\* None stands for the ValueError raised by strptime
calculate_duration(start_date, end_date) ==
    LET start == Strptime(start_date)
        end == Strptime(end_date)
    IN IF start = None \/ end = None THEN None
       ELSE Some((ToOrdinal(end) - ToOrdinal(start)) + 1)

\* request.preferences.get("attraction_types") if request.preferences else None
attraction_types(preferences) ==
    IF preferences = {} THEN None ELSE DictGet(preferences, "attraction_types")

FlightDicts(flight_options) ==
    [i \in 1..Len(flight_options) |->
        [airline |-> flight_options[i].airline, price |-> flight_options[i].price]]

HotelDicts(options) ==
    [i \in 1..Len(options) |->
        [name |-> options[i].name, price_per_night |-> options[i].price_per_night,
         rating |-> options[i].guest_rating]]

AttractionDicts(options) ==
    [i \in 1..Len(options) |->
        [name |-> options[i].name, category |-> options[i].category, price |-> options[i].price]]

DailySchedule(days) ==
    [i \in 1..Len(days) |->
        [day |-> days[i].day_number, date |-> days[i].date, activities |-> days[i].activities]]

\* min(f["price"] for f in flights)
RECURSIVE MinPrice(_)
MinPrice(flight_dicts) ==
    IF Len(flight_dicts) = 1 THEN flight_dicts[1].price
    ELSE Min2(flight_dicts[1].price, MinPrice(Tail(flight_dicts)))

\* lines 151-161
total_cost_of(flight_dicts, accommodations, hotels, attractions, dur) ==
    (IF flight_dicts # <<>> THEN MinPrice(flight_dicts) ELSE 0)
    + (IF accommodations # <<>> /\ get_best_hotel(hotels, "price") # None
       THEN calculate_total_cost(get_best_hotel(hotels, "price"), dur, 1)
       ELSE 0)
    + calculate_activities_cost(attractions)

\* ------------------------------------------------------------------ inputs
Txt_2024_06_01 == <<"2", "0", "2", "4", "-", "0", "6", "-", "0", "1">>

Txt_2024_06_07 == <<"2", "0", "2", "4", "-", "0", "6", "-", "0", "7">>

Txt_2024_6_2 == <<"2", "0", "2", "4", "-", "6", "-", "2">>

Txt_2024_02_28 == <<"2", "0", "2", "4", "-", "0", "2", "-", "2", "8">>

Txt_2024_02_29 == <<"2", "0", "2", "4", "-", "0", "2", "-", "2", "9">>

Txt_2024_03_01 == <<"2", "0", "2", "4", "-", "0", "3", "-", "0", "1">>

Txt_2024_3_1 == <<"2", "0", "2", "4", "-", "3", "-", "1">>

Txt_2023_12_31 == <<"2", "0", "2", "3", "-", "1", "2", "-", "3", "1">>

Txt_2024_02_30 == <<"2", "0", "2", "4", "-", "0", "2", "-", "3", "0">>

Txt_2024_13_01 == <<"2", "0", "2", "4", "-", "1", "3", "-", "0", "1">>

Txt_slashes == <<"2", "0", "2", "4", "/", "0", "6", "/", "0", "1">>

Txt_24_06_01 == <<"2", "4", "-", "0", "6", "-", "0", "1">>

WellFormedDates ==
    {Txt_2024_06_01, Txt_2024_06_07, Txt_2024_6_2, Txt_2024_02_28, Txt_2024_03_01, Txt_2023_12_31}

MalformedDates == {Txt_2024_02_30, Txt_2024_13_01, Txt_slashes, Txt_24_06_01}

RequestDates == WellFormedDates \cup MalformedDates

\* the dates given to the itinerary agent when it is called on its own
ItineraryDates == {Txt_2024_02_28, Txt_2024_02_29, Txt_2024_3_1, Txt_2024_02_30}

\* the attraction lists given to it then: n attractions, n = 0..MaxAttractions
TestAttractions(n) ==
    [i \in 1..n |-> [name |-> <<"Attraction", Digits[i + 1]>>, category |-> "museum", price |-> 10]]

T0800 == <<"0", "8", ":", "0", "0">>

T1200 == <<"1", "2", ":", "0", "0">>

T2030 == <<"2", "0", ":", "3", "0">>

\* the activities a caller adds; the last one has no "time" key
AddedActivities ==
    { [time |-> T0800, type |-> "custom", description |-> <<"Morning run">>],
      [time |-> T0900, type |-> "custom", description |-> <<"Coffee">>],
      [time |-> T1200, type |-> "custom", description |-> <<"Lunch">>],
      [time |-> T1900, type |-> "custom", description |-> <<"Sunset walk">>],
      [time |-> T2030, type |-> "custom", description |-> <<"Concert">>],
      [type |-> "custom", description |-> <<"Free time">>] }

\* the day numbers a caller passes for an itinerary of n days
DayNumbers(n) == {-1, 0, 1, n, n + 1}

\* optimize_budget arguments: whole currency units, weights in percent
TotalBudgets == {0, 1, 999, 1000}

\* options as a provider lists them: dicts, any key of which may be missing
Option_Lodge == [name |-> "Lodge", price |-> FromInt(340), rating |-> Decimal(48, 10), features |-> <<"pool", "spa", "wifi">>]
Option_GrandHotel == [name |-> "Grand Hotel", price |-> FromInt(300), rating |-> Decimal(45, 10), features |-> <<"pool", "spa">>]
Option_Inn == [name |-> "Inn", price |-> FromInt(200), rating |-> Decimal(45, 10), features |-> <<"wifi">>]
Option_Hostel == [name |-> "Hostel", price |-> FromInt(100)]
Option_RailPass == [name |-> "Rail pass", price |-> FromInt(240), rating |-> FromInt(4), features |-> <<"unlimited">>]
Option_Taxi == [name |-> "Taxi", price |-> FromInt(260), rating |-> Decimal(35, 10)]
Option_Ticket == [price |-> Decimal(5, 10)]
Option_FreeTour == [name |-> "Free tour", price |-> FZero, rating |-> FromInt(4)]
Option_Museum == [name |-> "Museum", rating |-> Decimal(45, 10), price |-> FromInt(20)]

OptionChoices == {Option_GrandHotel, Option_Inn, Option_Ticket, Option_FreeTour}
OptionLists == UNION {[1..n -> OptionChoices] : n \in 0..MaxOptions}
OptionBudgets == {FZero, FromInt(250), FromInt(1000)}

\* available_options: a category is missing, empty, or holds what the provider found
Found(category, options) == {{}, {<<category, <<>>>>}, {<<category, options>>}}
AvailableOptions ==
    { a \cup t \cup c :
        a \in Found("accommodation", <<Option_Lodge, Option_GrandHotel, Option_Inn, Option_Hostel>>),
        t \in Found("transportation", <<Option_RailPass, Option_Ticket, Option_Taxi>>),
        c \in Found("activities", <<Option_FreeTour, Option_Museum>>) }
StayLengths == {0, 3, 7}

CustomWeights == {10, 60}

Categories == {"accommodation", "transportation", "food", "activities", "emergency"}

\* every dict from some of the categories to a custom weight (the empty one included)
PriorityDicts ==
    UNION { { {<<c, f[c]>> : c \in cs} : f \in [cs -> CustomWeights] } : cs \in SUBSET Categories }

\* the attributes a caller assigns to, and the amounts assigned (in hundredths)
AllocationFields == {"total_budget", "accommodation", "transportation", "food", "activities", "emergency_fund"}

AssignedAmounts == {0, 50000}

Origins == {"", "NYC"}

Destinations == {"Paris"}

PreferenceDicts ==
    { {},
      {<<"pace", {"slow"}>>},
      {<<"attraction_types", {}>>},
      {<<"attraction_types", {"museum"}>>},
      {<<"attraction_types", {"park", "landmark", "tour"}>>},
      {<<"attraction_types", {"beach"}>>} }

TravelRequests ==
    [destination : Destinations, start_date : RequestDates, end_date : RequestDates,
     origin : Origins, travelers : 1..MaxTravelers, preferences : PreferenceDicts]

\* the Disruptions a caller scores: every severity, and equal severities that
\* differ in type and date
Txt_2024_06_02 == <<"2", "0", "2", "4", "-", "0", "6", "-", "0", "2">>

ScoredDisruptions ==
    { Disruption("other", "low", Txt_2024_06_01, <<"Minor issue">>, <<>>),
      Disruption("flight_delayed", "medium", Txt_2024_06_01, <<"Flight delayed">>, <<"flight">>),
      Disruption("severe_weather", "medium", Txt_2024_06_02, <<"Storm">>, <<"outdoor_activities">>),
      Disruption("flight_cancelled", "high", Txt_2024_06_01, <<"Cancelled">>, <<"flight">>),
      Disruption("hotel_unavailable", "critical", Txt_2024_06_01, <<"Hotel closed">>, <<"hotel">>),
      Disruption("other", "critical", Txt_2024_06_02, <<"Border closed">>, <<>>) }

\* the trips whose itinerary is handed to the disruption agent: one day, two
\* days, and an end before the start (no day at all)
DisruptionTrips ==
    [dates : {<<Txt_2024_06_01, Txt_2024_06_01>>, <<Txt_2024_06_01, Txt_2024_06_02>>,
              <<Txt_2024_06_02, Txt_2024_06_01>>},
     attractions : {0, 2}, with_start_date : BOOLEAN]

\* the "severe_weather" entries of live_data: absent, empty, on day 1, on day 2,
\* on a day outside the trip, and without a date
WeatherSignals ==
    { None, Some({}),
      Some({<<"date", Txt_2024_06_01>>, <<"description", <<"Storm">>>>}),
      Some({<<"date", Txt_2024_06_02>>}),
      Some({<<"date", Txt_2024_06_07>>}),
      Some({<<"description", <<"Heavy rain">>>>}) }

\* the items of a dict for one optional key
Item(key, value) == IF value = None THEN {} ELSE {<<key, value.some>>}

\* live_data: None, or a dict with any of the three signals
LiveData ==
    {None} \cup
    { Some(Item("flight_cancelled", c) \cup Item("flight_delayed_hours", h)
           \cup Item("severe_weather", w)) :
        c \in {None, Some(FALSE), Some(TRUE)}, h \in {None, Some(3), Some(4)},
        w \in WeatherSignals }

\* the FlightOptions a caller ranks: the two mock flights for one passenger and
\* two more that tie with them on price, duration or stops
CandidateFlights ==
    { [airline |-> "Mock Airlines", departure_city |-> "NYC", arrival_city |-> "Paris",
       price |-> 350, duration_hours |-> 4, stops |-> 0],
      [airline |-> "Budget Air", departure_city |-> "NYC", arrival_city |-> "Paris",
       price |-> 200, duration_hours |-> 6, stops |-> 1],
      [airline |-> "Low Cost Wings", departure_city |-> "NYC", arrival_city |-> "Paris",
       price |-> 200, duration_hours |-> 4, stops |-> 2],
      [airline |-> "Express Jet", departure_city |-> "NYC", arrival_city |-> "Paris",
       price |-> 350, duration_hours |-> 5, stops |-> 0] }

\* every list of at most MaxFlights of them
FlightLists == UNION { [1..n -> CandidateFlights] : n \in 0..MaxFlights }

FlightPreferences == {"price", "duration", "stops", "comfort"}

\* the amounts converted: 13.0, 99.99, 1000.0, 7.0, ...
AmountChoices == <<FromInt(13), Decimal(9999, 100), FromInt(1000), FromInt(7), FromInt(2500), FromInt(1)>>

Amounts == { AmountChoices[i] : i \in 1..Min2(MaxAmounts, Len(AmountChoices)) }

\* the codes of the table, and one in lower case
CurrencyCodes == { item[1] : item \in EXCHANGE_RATES } \cup { <<"u", "s", "d">> }

\* ------------------------------------------------------------------- state
VARIABLES
    entry,              \* how the request came in: "none" yet, "direct" (a library call) or "api"
    request,            \* the TravelRequest being processed, or None
    pc,                 \* where process_request stands
    duration,           \* its local: duration
    flights,            \* its local: flights (list of dicts)
    hotel_options,      \* its local: hotel_options
    attraction_options, \* its local: attraction_options
    itinerary_obj,      \* its local: itinerary_obj
    result,             \* the TravelItinerary returned, or None
    raised,             \* the exception that left process_request, or None
    calls,              \* the provider agents invoked so far, in order
    itinerary,          \* the Itinerary held by a direct caller of the itinerary agent, or None
    itin_before,        \* that Itinerary as it was before the last add_activity
    itin_call,          \* the last call made on the itinerary agent, with its outcome
    adds,               \* number of add_activity calls made
    breakdown,          \* the BudgetBreakdown last returned by optimize_budget, or None
    budget_call,        \* the arguments of that call
    held,               \* a BudgetBreakdown a caller keeps and assigns to, or None
    sets,               \* number of attribute assignments the caller made to it
    risk_list,          \* the list of Disruptions a caller scores
    risk_score,         \* the score _calculate_risk_score returned for it, or None
    risk_before,        \* the list and its score before the caller's last change
    risk_op,            \* that change: "none", "score", "add" or "replace", with its operands
    dis_itinerary,      \* the itinerary dict a caller of the disruption agent holds, or None
    day_heap,           \* the day dicts of its daily_schedule, by address
    detect_call,        \* the live_data given to detect_disruptions, or None before the call
    report,             \* the DisruptionReport it returned, or None
    revisions,          \* one entry per generate_revised_itinerary call made so far
    flight_call,        \* the arguments of the get_best_flight call made, or None
    best_flight,        \* what it returned: None or a FlightOption
    convert_call,       \* the arguments of the last convert call a caller made, or None
    conversion,         \* the CurrencyConversion it returned, or None
    back_conversion,    \* the CurrencyConversion of converting that result back, or None
    rate_info,          \* the ExchangeRate the caller got for the same pair, or None
    value_call,         \* the arguments of the find_best_value_options call made, or None
    best_options,       \* the list it returned
    optimize_call,      \* the arguments of the optimize_itinerary call made, or None
    optimization        \* the BudgetOptimizationResult it returned, or None

concierge_vars ==
    <<entry, request, pc, duration, flights, hotel_options, attraction_options, itinerary_obj,
      result, raised, calls>>

itinerary_vars == <<itinerary, itin_before, itin_call, adds>>

option_vars == <<value_call, best_options, optimize_call, optimization>>

budget_vars == <<breakdown, budget_call, held, sets, option_vars>>

risk_vars == <<risk_list, risk_score, risk_before, risk_op>>

disruption_vars == <<dis_itinerary, day_heap, detect_call, report, revisions>>

flight_vars == <<flight_call, best_flight>>

currency_vars == <<convert_call, conversion, back_conversion, rate_info>>

provider_vars == <<risk_vars, disruption_vars, flight_vars, currency_vars>>

vars == <<concierge_vars, itinerary_vars, budget_vars, provider_vars>>

\* after construction: the agents exist, nothing has been asked of them
Init ==
    /\ entry = "none"
    /\ request = None
    /\ pc = "idle"
    /\ duration = None
    /\ flights = <<>>
    /\ hotel_options = <<>>
    /\ attraction_options = <<>>
    /\ itinerary_obj = None
    /\ result = None
    /\ raised = None
    /\ calls = <<>>
    /\ itinerary = None
    /\ itin_before = None
    /\ itin_call = None
    /\ adds = 0
    /\ breakdown = None
    /\ budget_call = None
    /\ held = None
    /\ sets = 0
    /\ value_call = None
    /\ best_options = <<>>
    /\ optimize_call = None
    /\ optimization = None
    /\ risk_list = <<>>
    /\ risk_score = None
    /\ risk_before = None
    /\ risk_op = [op |-> "none"]
    /\ dis_itinerary = None
    /\ day_heap = <<>>
    /\ detect_call = None
    /\ report = None
    /\ revisions = <<>>
    /\ flight_call = None
    /\ best_flight = None
    /\ convert_call = None
    /\ conversion = None
    /\ back_conversion = None
    /\ rate_info = None

\* ---------------------------------------------------- process_request steps
\* a caller builds a TravelRequest (a plain dataclass: no check) and calls process_request
ProcessRequest(r) ==
    /\ pc = "idle"
    /\ entry' = "direct"
    /\ request' = r
    /\ pc' = "duration"
    /\ UNCHANGED <<duration, flights, hotel_options, attraction_options, itinerary_obj,
                   result, raised, calls>>
    /\ UNCHANGED <<itinerary_vars, budget_vars, provider_vars>>

\* TripRequest validators of the HTTP boundary
validate_date_format(v) == Strptime(v) # None

validate_end_after_start(start_date, end_date) ==
    ToOrdinal(Strptime(end_date)) > ToOrdinal(Strptime(start_date))

\* POST /plan_trip: TripRequest validation, then the same process_request
PlanTrip(r) ==
    /\ pc = "idle"
    /\ entry' = "api"
    /\ request' = r
    /\ IF /\ validate_date_format(r.start_date)
          /\ validate_date_format(r.end_date)
          /\ validate_end_after_start(r.start_date, r.end_date)
       THEN pc' = "duration" /\ raised' = raised
       ELSE pc' = "rejected" /\ raised' = Some("RequestValidationError")
    /\ UNCHANGED <<duration, flights, hotel_options, attraction_options, itinerary_obj,
                   result, calls>>
    /\ UNCHANGED <<itinerary_vars, budget_vars, provider_vars>>

\* line 80
CalculateDuration ==
    /\ pc = "duration"
    /\ LET d == calculate_duration(request.start_date, request.end_date) IN
       IF d = None
       THEN /\ pc' = "raised"
            /\ raised' = Some("ValueError")
            /\ duration' = duration
       ELSE /\ pc' = "flights"
            /\ duration' = d
            /\ raised' = raised
    /\ UNCHANGED <<entry, request, flights, hotel_options, attraction_options, itinerary_obj,
                   result, calls>>
    /\ UNCHANGED <<itinerary_vars, budget_vars, provider_vars>>

SearchFlights_unconditional ==
    /\ pc = "flights"
    /\ calls' = Append(calls, "flight")
    /\ flights' = IF request.origin # ""
                  THEN FlightDicts(search_flights(request.origin, request.destination,
                                                  request.start_date, request.travelers))
                  ELSE <<>>
    /\ pc' = "hotels"
    /\ UNCHANGED <<entry, request, duration, hotel_options, attraction_options, itinerary_obj,
                   result, raised>>
    /\ UNCHANGED <<itinerary_vars, budget_vars, provider_vars>>

\* lines 83-99
SearchFlights ==
    /\ pc = "flights"
    /\ IF request.origin # ""
       THEN /\ calls' = Append(calls, "flight")
            /\ flights' = FlightDicts(search_flights(request.origin, request.destination,
                                                     request.start_date, request.travelers))
       ELSE /\ calls' = calls
            /\ flights' = <<>>
    /\ pc' = "hotels"
    /\ UNCHANGED <<entry, request, duration, hotel_options, attraction_options, itinerary_obj,
                   result, raised>>
    /\ UNCHANGED <<itinerary_vars, budget_vars, provider_vars>>

\* lines 102-116
SearchHotels ==
    /\ pc = "hotels"
    /\ calls' = Append(calls, "hotel")
    /\ hotel_options' = search_hotels(request.destination, request.start_date,
                                      request.end_date, request.travelers)
    /\ pc' = "attractions"
    /\ UNCHANGED <<entry, request, duration, flights, attraction_options, itinerary_obj,
                   result, raised>>
    /\ UNCHANGED <<itinerary_vars, budget_vars, provider_vars>>

\* lines 119-132
DiscoverAttractions ==
    /\ pc = "attractions"
    /\ calls' = Append(calls, "attraction")
    /\ attraction_options' = discover_attractions(request.destination,
                                                  attraction_types(request.preferences))
    /\ pc' = "itinerary"
    /\ UNCHANGED <<entry, request, duration, flights, hotel_options, itinerary_obj, result, raised>>
    /\ UNCHANGED <<itinerary_vars, budget_vars, provider_vars>>

\* lines 135-149
CreateItinerary ==
    /\ pc = "itinerary"
    /\ calls' = Append(calls, "itinerary")
    /\ LET r == create_itinerary(request.destination, request.start_date,
                                 request.end_date, attraction_options) IN
       IF r.ok
       THEN /\ itinerary_obj' = Some(r.value)
            /\ pc' = "cost"
            /\ raised' = raised
       ELSE /\ itinerary_obj' = itinerary_obj
            /\ pc' = "raised"
            /\ raised' = Some(r.error)
    /\ UNCHANGED <<entry, request, duration, flights, hotel_options, attraction_options, result>>
    /\ UNCHANGED <<itinerary_vars, budget_vars, provider_vars>>

\* lines 151-174
AggregateCost ==
    /\ pc = "cost"
    /\ result' = Some(
          [destination |-> request.destination,
           duration_days |-> duration.some,
           flights |-> flights,
           accommodations |-> HotelDicts(hotel_options),
           attractions |-> AttractionDicts(attraction_options),
           daily_schedule |-> DailySchedule(itinerary_obj.some.days),
           total_estimated_cost |->
               total_cost_of(flights, HotelDicts(hotel_options), hotel_options,
                             attraction_options, duration.some)])
    /\ pc' = "returned"
    /\ UNCHANGED <<entry, request, duration, flights, hotel_options, attraction_options,
                   itinerary_obj, raised, calls>>
    /\ UNCHANGED <<itinerary_vars, budget_vars, provider_vars>>

\* ------------------------------------------- the itinerary agent, on its own
CallCreateItinerary(destination, start_date, end_date, attractions) ==
    /\ itin_call = None
    /\ LET r == create_itinerary(destination, start_date, end_date, attractions) IN
       /\ itinerary' = IF r.ok THEN Some(r.value) ELSE None
       /\ itin_call' = [op |-> "create_itinerary", start_date |-> start_date,
                        end_date |-> end_date, attractions |-> attractions,
                        outcome |-> IF r.ok THEN "returned" ELSE r.error]
    /\ UNCHANGED <<itin_before, adds>>
    /\ UNCHANGED <<concierge_vars, budget_vars, provider_vars>>

\* add_activity mutates the Itinerary it is given and returns it; it never raises
CallAddActivity(day_number, activity) ==
    /\ itinerary # None
    /\ adds < MaxAdds
    /\ itin_before' = itinerary
    /\ itinerary' = Some(add_activity(itinerary.some, day_number, activity))
    /\ itin_call' = [op |-> "add_activity", day_number |-> day_number,
                     activity |-> activity, outcome |-> "returned"]
    /\ adds' = adds + 1
    /\ UNCHANGED <<concierge_vars, budget_vars, provider_vars>>

NextItinerary ==
    \/ \E d \in Destinations, s \in ItineraryDates, e \in ItineraryDates, n \in 0..MaxAttractions :
          CallCreateItinerary(d, s, e, TestAttractions(n))
    \/ \E a \in AddedActivities :
          \E dn \in DayNumbers(IF itinerary = None THEN 0 ELSE Len(itinerary.some.days)) :
             CallAddActivity(dn, a)

SpecItinerary == Init /\ [][NextItinerary]_vars

\* ------------------------------------------------------ the budget optimizer
\* one call per run: the agent keeps nothing between calls
CallOptimizeBudget(total_budget, duration_days, priorities) ==
    /\ budget_call = None
    /\ breakdown' = Some(optimize_budget(total_budget, duration_days, priorities))
    /\ budget_call' = [total_budget |-> total_budget, duration_days |-> duration_days,
                       priorities |-> priorities]
    /\ UNCHANGED <<held, sets, option_vars>>
    /\ UNCHANGED <<concierge_vars, itinerary_vars, provider_vars>>

NextBudget ==
    \E t \in TotalBudgets, p \in {None} \cup {Some(d) : d \in PriorityDicts} :
        CallOptimizeBudget(t, 7, p)

SpecBudget == Init /\ [][NextBudget]_vars

\* ------------------------------------------- a BudgetBreakdown, once returned
\* BudgetBreakdown is a plain dataclass: a caller that holds one can assign to
\* its attributes, and an assignment changes that attribute only
HoldBreakdown(total_budget, priorities) ==
    /\ held = None
    /\ held' = Some(optimize_budget(total_budget, 7, priorities))
    /\ UNCHANGED <<breakdown, budget_call, sets, option_vars>>
    /\ UNCHANGED <<concierge_vars, itinerary_vars, provider_vars>>

SetAttribute(name, value) ==
    /\ held # None
    /\ sets < MaxSets
    /\ held' = Some([held.some EXCEPT ![name] = value])
    /\ sets' = sets + 1
    /\ UNCHANGED <<breakdown, budget_call, option_vars>>
    /\ UNCHANGED <<concierge_vars, itinerary_vars, provider_vars>>

NextBreakdown ==
    \/ \E t \in TotalBudgets, p \in {None, Some({<<"accommodation", 60>>})} : HoldBreakdown(t, p)
    \/ \E name \in AllocationFields, value \in AssignedAmounts : SetAttribute(name, value)

SpecBreakdown == Init /\ [][NextBreakdown]_vars

\* ------------------------------------------- the options the optimizer picks
\* one find_best_value_options call per run
CallFindBestValueOptions(options, budget, category) ==
    /\ value_call = None
    /\ value_call' = [options |-> options, budget |-> budget, category |-> category]
    /\ best_options' = find_best_value_options(options, budget, category)
    /\ UNCHANGED <<breakdown, budget_call, held, sets, optimize_call, optimization>>
    /\ UNCHANGED <<concierge_vars, itinerary_vars, provider_vars>>

NextValue ==
    \E options \in OptionLists, budget \in OptionBudgets : CallFindBestValueOptions(options, budget, "activities")

SpecValue == Init /\ [][NextValue]_vars

\* one optimize_itinerary call per run
CallOptimizeItinerary(total_budget, duration_days, destination, available_options) ==
    /\ optimize_call = None
    /\ optimize_call' = [total_budget |-> total_budget, duration_days |-> duration_days,
                         destination |-> destination, available_options |-> available_options]
    /\ optimization' = Some(optimize_itinerary(total_budget, duration_days, destination, available_options))
    /\ UNCHANGED <<breakdown, budget_call, held, sets, value_call, best_options>>
    /\ UNCHANGED <<concierge_vars, itinerary_vars, provider_vars>>

NextOptimize ==
    \E t \in TotalBudgets, d \in StayLengths, dest \in Destinations, a \in AvailableOptions : CallOptimizeItinerary(t, d, dest, a)

SpecOptimize == Init /\ [][NextOptimize]_vars

\* ------------------------------------------- the risk score, on its own
\* a caller scores the list it holds
CallCalculateRiskScore ==
    /\ risk_score = None
    /\ risk_score' = Some(calculate_risk_score(risk_list))
    /\ risk_op' = [op |-> "score"]
    /\ UNCHANGED <<risk_list, risk_before>>
    /\ UNCHANGED <<concierge_vars, itinerary_vars, budget_vars, disruption_vars, flight_vars, currency_vars>>

\* the caller appends one Disruption and scores the list again
ScoreAfterAdd(d) ==
    /\ risk_score # None
    /\ Len(risk_list) < MaxDisruptions
    /\ risk_before' = Some([list |-> risk_list, score |-> risk_score.some])
    /\ risk_list' = Append(risk_list, d)
    /\ risk_score' = Some(calculate_risk_score(Append(risk_list, d)))
    /\ risk_op' = [op |-> "add", disruption |-> d]
    /\ UNCHANGED <<concierge_vars, itinerary_vars, budget_vars, disruption_vars, flight_vars, currency_vars>>

\* the caller replaces the i-th Disruption and scores the list again
ScoreAfterReplace(i, d) ==
    /\ risk_score # None
    /\ i \in 1..Len(risk_list)
    /\ risk_before' = Some([list |-> risk_list, score |-> risk_score.some])
    /\ risk_list' = [risk_list EXCEPT ![i] = d]
    /\ risk_score' = Some(calculate_risk_score([risk_list EXCEPT ![i] = d]))
    /\ risk_op' = [op |-> "replace", index |-> i, disruption |-> d]
    /\ UNCHANGED <<concierge_vars, itinerary_vars, budget_vars, disruption_vars, flight_vars, currency_vars>>

NextRisk ==
    \/ CallCalculateRiskScore
    \/ \E d \in ScoredDisruptions : ScoreAfterAdd(d)
    \/ \E i \in 1..MaxDisruptions, d \in ScoredDisruptions : ScoreAfterReplace(i, d)

SpecRisk == Init /\ [][NextRisk]_vars

\* --------------------------------------------- the disruption revision flow
\* a caller plans a trip and keeps its itinerary as a dict; the day dicts of
\* daily_schedule are put at addresses 1..N
HoldItinerary(trip) ==
    /\ dis_itinerary = None
    /\ LET r == create_itinerary("Paris", trip.dates[1], trip.dates[2],
                                 TestAttractions(trip.attractions))
       IN /\ r.ok
          /\ day_heap' = DailySchedule(r.value.days)
          /\ LET fl == FlightDicts(search_flights("NYC", "Paris", trip.dates[1], 1))
                 addresses == [i \in 1..Len(r.value.days) |-> i]
             IN dis_itinerary' =
                   IF trip.with_start_date
                   THEN Some([destination |-> "Paris", start_date |-> trip.dates[1],
                              flights |-> fl, daily_schedule |-> addresses])
                   ELSE Some([destination |-> "Paris", flights |-> fl,
                              daily_schedule |-> addresses])
    /\ UNCHANGED <<detect_call, report, revisions>>
    /\ UNCHANGED <<concierge_vars, itinerary_vars, budget_vars, risk_vars, flight_vars, currency_vars>>

\* detect_disruptions reads the itinerary and live_data and changes neither
CallDetectDisruptions(live_data) ==
    /\ dis_itinerary # None
    /\ detect_call = None
    /\ detect_call' = Some([live_data |-> live_data])
    /\ report' = Some(detect_disruptions(dis_itinerary.some, live_data))
    /\ UNCHANGED <<dis_itinerary, day_heap, revisions>>
    /\ UNCHANGED <<concierge_vars, itinerary_vars, budget_vars, risk_vars, flight_vars, currency_vars>>

\* generate_revised_itinerary on the itinerary as it is now; an entry of revisions
\* keeps the RevisedItinerary, the schedule it showed when the call returned, and
\* the day dicts as they were when the call began
CallGenerateRevisedItinerary ==
    /\ report # None
    /\ Len(revisions) < MaxRevisions
    /\ LET r == generate_revised_itinerary(day_heap, dis_itinerary.some, report.some) IN
       /\ day_heap' = r.heap
       /\ revisions' = Append(revisions,
             [revised |-> r.value,
              schedule |-> Deref(r.heap, r.value.new_daily_schedule),
              heap_before |-> day_heap])
    /\ UNCHANGED <<dis_itinerary, detect_call, report>>
    /\ UNCHANGED <<concierge_vars, itinerary_vars, budget_vars, risk_vars, flight_vars, currency_vars>>

NextDisruption ==
    \/ \E trip \in DisruptionTrips : HoldItinerary(trip)
    \/ \E live_data \in LiveData : CallDetectDisruptions(live_data)
    \/ CallGenerateRevisedItinerary

SpecDisruption == Init /\ [][NextDisruption]_vars

\* ------------------------------------------------- the flight ranking helper
\* one call per run: the agent keeps nothing between calls
CallGetBestFlight(flight_list, preference) ==
    /\ flight_call = None
    /\ flight_call' = Some([flights |-> flight_list, preference |-> preference])
    /\ best_flight' = get_best_flight(flight_list, preference)
    /\ UNCHANGED <<concierge_vars, itinerary_vars, budget_vars, risk_vars, disruption_vars, currency_vars>>

NextFlight ==
    \E flight_list \in FlightLists, preference \in FlightPreferences :
        CallGetBestFlight(flight_list, preference)

SpecFlight == Init /\ [][NextFlight]_vars

\* ------------------------------------------------- the currency converter
\* a caller converts an amount, may convert the result back, and may ask for
\* the rate of the same pair; one conversion per run, since the agent keeps
\* nothing between calls
CallConvert(amount, from_currency, to_currency) ==
    /\ convert_call = None
    /\ convert_call' = Some([amount |-> amount, from_currency |-> from_currency, to_currency |-> to_currency])
    /\ conversion' = Some(convert(amount, from_currency, to_currency))
    /\ back_conversion' = None
    /\ rate_info' = None
    /\ UNCHANGED <<concierge_vars, itinerary_vars, budget_vars, risk_vars, disruption_vars, flight_vars>>

CallConvertBack ==
    /\ conversion # None
    /\ back_conversion = None
    /\ back_conversion' = Some(convert(conversion.some.converted_amount, conversion.some.converted_currency, conversion.some.original_currency))
    /\ UNCHANGED <<convert_call, conversion, rate_info>>
    /\ UNCHANGED <<concierge_vars, itinerary_vars, budget_vars, risk_vars, disruption_vars, flight_vars>>

CallGetExchangeRate ==
    /\ convert_call # None
    /\ rate_info = None
    /\ rate_info' = Some(get_exchange_rate(convert_call.some.from_currency, convert_call.some.to_currency))
    /\ UNCHANGED <<convert_call, conversion, back_conversion>>
    /\ UNCHANGED <<concierge_vars, itinerary_vars, budget_vars, risk_vars, disruption_vars, flight_vars>>

NextCurrency ==
    \/ \E amount \in Amounts, from_currency \in CurrencyCodes, to_currency \in CurrencyCodes :
           CallConvert(amount, from_currency, to_currency)
    \/ CallConvertBack
    \/ CallGetExchangeRate

SpecCurrency == Init /\ [][NextCurrency]_vars

Next ==
    \/ \E r \in TravelRequests : ProcessRequest(r)
    \/ \E r \in TravelRequests : PlanTrip(r)
    \/ CalculateDuration
    \/ SearchFlights
    \/ SearchHotels
    \/ DiscoverAttractions
    \/ CreateItinerary
    \/ AggregateCost

Spec == Init /\ [][Next]_vars

\* ================================================================== claims
\* ------------------------------------------------- vocabulary of the claims
\* the calendar, built from the month lengths alone
Calendar == {dt \in [y : Years, m : 1..12, d : 1..31] : dt.d <= DaysInMonth(dt.y, dt.m)}

\* calendar order: by year, then month, then day
DateLess(a, b) ==
    \/ a.y < b.y
    \/ a.y = b.y /\ a.m < b.m
    \/ a.y = b.y /\ a.m = b.m /\ a.d < b.d

\* the number of calendar days after a, up to and including b
DaysAfter(a, b) == Cardinality({dt \in Calendar : DateLess(a, dt) /\ (DateLess(dt, b) \/ dt = b)})

\* a time of day "HH:MM" in minutes; an activity that carries no time counts as 00:00
Minutes(t) == 60 * IntOf(SubSeq(t, 1, 2)) + IntOf(SubSeq(t, 4, 5))

TimeOfDay(a) == IF "time" \in DOMAIN a THEN Minutes(a.time) ELSE 0

SeqToSet(q) == {q[i] : i \in 1..Len(q)}

SetMin(S) == CHOOSE x \in S : \A z \in S : x <= z

RECURSIVE SetSum(_, _)
SetSum(q, I) ==
    IF I = {} THEN 0
    ELSE LET i == CHOOSE j \in I : TRUE IN q[i].price + SetSum(q, I \ {i})

CreateReturned ==
    itin_call # None /\ itin_call.op = "create_itinerary" /\ itin_call.outcome = "returned"

AddReturned == itin_call # None /\ itin_call.op = "add_activity"

\* C1: create_itinerary returns exactly (end - start in days) + 1 DayPlans, each with
\* breakfast at 09:00 first and dinner at 19:00 last, whatever the attraction list.
\* The code returns no DayPlan when end_date is before start_date (and raises
\* ZeroDivisionError when the count is 0 and attractions are given).
C1_DayCountAndMeals ==
    (/\ itin_call # None
     /\ itin_call.op = "create_itinerary"
     /\ Strptime(itin_call.start_date) # None
     /\ Strptime(itin_call.end_date) # None)
    => /\ itin_call.outcome = "returned"
       /\ Len(itinerary.some.days) =
             (ToOrdinal(Strptime(itin_call.end_date))
              - ToOrdinal(Strptime(itin_call.start_date))) + 1
       /\ \A k \in 1..Len(itinerary.some.days) :
             LET acts == itinerary.some.days[k].activities IN
             /\ acts[1].type = "breakfast" /\ acts[1].time = T0900
             /\ acts[Len(acts)].type = "dinner" /\ acts[Len(acts)].time = T1900

\* C2: the returned total_estimated_cost is the lowest flight price (0 without
\* flights) plus the lowest price_per_night times duration_days for one room plus
\* the sum of the prices of all attractions found.
C2_TotalEstimatedCost ==
    pc = "returned" =>
       LET r == result.some IN
       r.total_estimated_cost =
           (IF r.flights = <<>> THEN 0
            ELSE SetMin({r.flights[i].price : i \in 1..Len(r.flights)}))
         + SetMin({r.accommodations[i].price_per_night : i \in 1..Len(r.accommodations)})
             * r.duration_days
         + SetSum(r.attractions, 1..Len(r.attractions))

C2_Witness ==
    /\ pc = "returned"
    /\ request.origin = "NYC"
    /\ request.travelers = 2
    /\ result.some.duration_days = 7
    /\ Len(result.some.attractions) = 5
    /\ result.some.total_estimated_cost = 400 + 55 * 7 + 75

\* C3: the Flight agent is invoked iff origin is non-empty; without an origin the
\* flights list is empty and adds nothing to the cost; with an origin the flights
\* and accommodations lists are non-empty and total_estimated_cost > 0.
\* The code returns a negative total for a request whose end_date is well before
\* its start_date, which it does not reject (C4).
C3_FlightsIffOrigin ==
    pc = "returned" =>
       LET r == result.some IN
       /\ (\E i \in 1..Len(calls) : calls[i] = "flight") <=> (request.origin # "")
       /\ request.origin = "" =>
             /\ r.flights = <<>>
             /\ r.total_estimated_cost =
                   55 * r.duration_days + SetSum(r.attractions, 1..Len(r.attractions))
       /\ request.origin # "" =>
             /\ r.flights # <<>>
             /\ r.accommodations # <<>>
             /\ r.total_estimated_cost > 0

\* C4: a request whose end_date is not strictly after its start_date is rejected:
\* no provider agent is invoked for it and no itinerary is returned.
\* The code's TravelRequest checks nothing, so process_request runs to the end.
C4_EndNotAfterStartRejected ==
    (/\ request # None
     /\ Strptime(request.start_date) # None
     /\ Strptime(request.end_date) # None
     /\ ~DateLess(Strptime(request.start_date), Strptime(request.end_date)))
    => /\ calls = <<>>
       /\ result = None
       /\ pc \in {"duration", "rejected", "raised"}

\* C5: with a start_date or end_date that is not a well-formed date,
\* process_request fails before any agent is invoked and returns no itinerary.
C5_MalformedDateFailsFirst ==
    (/\ request # None
     /\ (request.start_date \in MalformedDates \/ request.end_date \in MalformedDates))
    => /\ calls = <<>>
       /\ result = None
       /\ itinerary_obj = None
       /\ pc \in {"duration", "rejected", "raised"}
       /\ pc = "raised" => raised = Some("ValueError")

C5_Witness ==
    /\ entry = "direct"
    /\ pc = "raised"
    /\ request.start_date = Txt_2024_06_01
    /\ request.end_date = Txt_2024_02_30
    /\ request.origin = "NYC"
    /\ raised = Some("ValueError")
    /\ calls = <<>>

\* C6: for well-formed dates with end after start the duration is the inclusive
\* day count, and it is what process_request reports as duration_days
\* (2024-06-01 to 2024-06-07 gives 7).
C6_InclusiveDuration ==
    (/\ pc \in {"flights", "hotels", "attractions", "itinerary", "cost", "returned"}
     /\ DateLess(Strptime(request.start_date), Strptime(request.end_date)))
    => /\ duration.some =
             DaysAfter(Strptime(request.start_date), Strptime(request.end_date)) + 1
       /\ pc = "returned" => result.some.duration_days = duration.some
       /\ (request.start_date = Txt_2024_06_01 /\ request.end_date = Txt_2024_06_07)
             => duration.some = 7

C6_Witness ==
    /\ pc = "returned"
    /\ request.start_date = Txt_2024_02_28
    /\ request.end_date = Txt_2024_6_2
    /\ result.some.duration_days = 96

\* C7: the k-th DayPlan has day_number k and the date k - 1 days after start_date;
\* the last DayPlan's date is end_date.
C7_DayNumbersAndDates ==
    CreateReturned =>
       LET days == itinerary.some.days
           start == Strptime(itin_call.start_date)
           end == Strptime(itin_call.end_date)
       IN /\ \A k \in 1..Len(days) :
                /\ days[k].day_number = k
                /\ Len(days[k].date) = 10
                /\ Strptime(days[k].date) # None
                /\ DaysAfter(start, Strptime(days[k].date)) = k - 1
                /\ k = 1 => Strptime(days[k].date) = start
          /\ Len(days) >= 1 => Strptime(days[Len(days)].date) = end

C7_Witness ==
    /\ CreateReturned
    /\ itin_call.start_date = Txt_2024_02_28
    /\ itin_call.end_date = Txt_2024_3_1
    /\ Len(itinerary.some.days) = 3
    /\ itinerary.some.days[2].date = Txt_2024_02_29
    /\ itinerary.some.days[3].date = Txt_2024_03_01

\* the activities of a list that fall at time-of-day t, in list order
AtTime(list, t) == SelectSeq(list, LAMBDA a : TimeOfDay(a) = t)

InRange == itin_call.day_number \in 1..Len(itin_before.some.days)

\* C8: after add_activity on a day d in 1..N, day d holds the new activity and
\* every earlier one, in non-decreasing time-of-day order, activities of equal
\* time in their previous order with the new one last; other days are unchanged.
C8_AddActivitySortsOneDay ==
    (AddReturned /\ InRange) =>
       LET d == itin_call.day_number
           old == itin_before.some.days
           new == itinerary.some.days
           a == itin_call.activity
       IN /\ Len(new) = Len(old)
          /\ Len(new[d].activities) = Len(old[d].activities) + 1
          /\ \A i, j \in 1..Len(new[d].activities) :
                i < j => TimeOfDay(new[d].activities[i]) <= TimeOfDay(new[d].activities[j])
          /\ \A t \in {TimeOfDay(x) : x \in SeqToSet(new[d].activities)} :
                AtTime(new[d].activities, t) =
                   AtTime(old[d].activities, t) \o (IF TimeOfDay(a) = t THEN <<a>> ELSE <<>>)
          /\ \A k \in 1..Len(new) : k # d => new[k] = old[k]
          /\ new[d].day_number = old[d].day_number /\ new[d].date = old[d].date

C8_Witness ==
    /\ AddReturned
    /\ itin_call.day_number = 1
    /\ itin_call.activity.description = <<"Sunset walk">>
    /\ Len(itin_before.some.days) = 2
    /\ LET acts == itinerary.some.days[1].activities IN
       /\ acts[Len(acts)] = itin_call.activity
       /\ acts[Len(acts) - 1] = Dinner

OutOfRange == itin_call.day_number \notin 1..Len(itin_before.some.days)

\* C9 as claimed: add_activity with a day_number outside 1..N fails with an index
\* error and leaves the itinerary unchanged.
C9_OutOfRangeRaises ==
    (AddReturned /\ OutOfRange) => (itin_call.outcome = "IndexError" /\ itinerary = itin_before)

\* C9 as amended: add_activity with a day_number outside 1..N returns normally
\* (no error) and leaves the itinerary unchanged.
C9_OutOfRangeIgnored ==
    (AddReturned /\ OutOfRange) => (itin_call.outcome = "returned" /\ itinerary = itin_before)

C9_Witness ==
    /\ AddReturned
    /\ itin_call.day_number = 0
    /\ Len(itin_before.some.days) = 3
    /\ itin_call.outcome = "returned"
    /\ itinerary = itin_before

\* C10: in every BudgetBreakdown returned by optimize_budget the five allocations
\* and remaining add up to total_budget, for default, partial and custom priorities.
C10_BreakdownAddsUp ==
    breakdown # None =>
       LET b == breakdown.some IN
       /\ b.total_budget = 100 * budget_call.total_budget
       /\ b.accommodation + b.transportation + b.food + b.activities
            + b.emergency_fund + b.remaining = b.total_budget

C10_Witness ==
    /\ breakdown # None
    /\ budget_call.total_budget = 1000
    /\ budget_call.priorities = Some({<<"accommodation", 60>>})
    /\ breakdown.some.accommodation = 60000
    /\ breakdown.some.food = 20000
    /\ breakdown.some.remaining = -25000

\* the number of Disruptions of a list that have a given severity
CountSeverity(list, severity) ==
    Cardinality({i \in 1..Len(list) : list[i].severity = severity})

\* C11: the risk score of a list is min(100, 10 per low + 30 per medium + 60 per
\* high + 100 per critical disruption): a function of the severity counts alone
\* (replacing a disruption by one of the same severity but another type or date
\* keeps the score), 0 for the empty list, and always within 0..100.
C11_RiskScoreFormula ==
    risk_score # None =>
       /\ risk_score.some =
             Min2(100, 10 * CountSeverity(risk_list, "low")
                       + 30 * CountSeverity(risk_list, "medium")
                       + 60 * CountSeverity(risk_list, "high")
                       + 100 * CountSeverity(risk_list, "critical"))
       /\ risk_list = <<>> => risk_score.some = 0
       /\ risk_score.some \in 0..100
       /\ (/\ risk_op.op = "replace"
           /\ risk_op.disruption.severity = risk_before.some.list[risk_op.index].severity)
          => risk_score.some = risk_before.some.score

C11_Witness ==
    /\ risk_score # None
    /\ Len(risk_list) = 3
    /\ CountSeverity(risk_list, "low") = 1
    /\ CountSeverity(risk_list, "medium") = 2
    /\ risk_list[1].disruption_type = "severe_weather"
    /\ risk_list[3].disruption_type = "flight_delayed"
    /\ risk_score.some = 70

\* the order of the severities, lowest first
SeverityRank(severity) ==
    CASE severity = "low" -> 1
      [] severity = "medium" -> 2
      [] severity = "high" -> 3
      [] severity = "critical" -> 4

\* C12: adding a disruption never lowers the risk score, replacing a disruption
\* by one of equal or higher severity never lowers it, and a list holding at
\* least one critical disruption scores exactly 100.
C12_RiskScoreMonotone ==
    risk_score # None =>
       /\ risk_op.op = "add" => risk_score.some >= risk_before.some.score
       /\ (/\ risk_op.op = "replace"
           /\ SeverityRank(risk_op.disruption.severity) >=
                 SeverityRank(risk_before.some.list[risk_op.index].severity))
          => risk_score.some >= risk_before.some.score
       /\ CountSeverity(risk_list, "critical") >= 1 => risk_score.some = 100

C12_Witness ==
    /\ risk_score # None
    /\ risk_op.op = "add"
    /\ risk_op.disruption.severity = "high"
    /\ Len(risk_list) = 3
    /\ CountSeverity(risk_before.some.list, "critical") = 1
    /\ risk_before.some.score = 100
    /\ risk_score.some = 100

\* the types of the disruptions of the report, in report order
ReportTypes == [i \in 1..Len(report.some.disruptions) |-> report.some.disruptions[i].disruption_type]

ScheduleAfter(k) ==
    Deref(IF k < Len(revisions) THEN revisions[k + 1].heap_before ELSE day_heap,
          DailyScheduleOf(dis_itinerary.some))

\* the original daily_schedule as it read when the k-th revision call began
ScheduleBefore(k) == Deref(revisions[k].heap_before, DailyScheduleOf(dis_itinerary.some))

\* C18: generate_revised_itinerary leaves the original itinerary unchanged: after
\* each call the original daily_schedule has the same days, each with the same
\* activities and the same keys, as before the call.
C18_OriginalUnchanged ==
    \A k \in 1..Len(revisions) : ScheduleAfter(k) = ScheduleBefore(k)

\* C19: two calls in a row with the same itinerary and report return the same
\* new_daily_schedule, and with a flight delay (and no weather) in the report each
\* returned day 1 has exactly one activity less than the planned day 1.
C19_RevisionRepeatable ==
    \A k \in 1..Len(revisions) :
       /\ revisions[k].schedule = revisions[1].schedule
       /\ (/\ \E i \in 1..Len(ReportTypes) : ReportTypes[i] = "flight_delayed"
           /\ \A i \in 1..Len(ReportTypes) : ReportTypes[i] # "severe_weather"
           /\ ScheduleBefore(1) # <<>>)
          => Len(revisions[k].schedule[1].activities) =
                Len(ScheduleBefore(1)[1].activities) - 1

\* the severe-weather disruption of the report
WeatherDisruption ==
    report.some.disruptions[CHOOSE i \in 1..Len(ReportTypes) : ReportTypes[i] = "severe_weather"]

\* C20: with a flight delay and severe weather in one report the last remedy
\* wins: the returned new_daily_schedule is the schedule the call was given with
\* the weather replacement alone, without the effect of the delay remedy on day 1.
C20_LastRemedyWins ==
    \A k \in 1..Len(revisions) :
       (/\ \E i \in 1..Len(ReportTypes) : ReportTypes[i] = "flight_delayed"
        /\ \E i \in 1..Len(ReportTypes) : ReportTypes[i] = "severe_weather")
       => revisions[k].schedule =
             Deref(replace_with_indoor_activities(revisions[k].heap_before,
                                                  DailyScheduleOf(dis_itinerary.some),
                                                  WeatherDisruption.affected_date).heap,
                   DailyScheduleOf(dis_itinerary.some))

\* the prices of the flights given to get_best_flight
CallPrices == {flight_call.some.flights[i].price : i \in 1..Len(flight_call.some.flights)}

\* C16: get_best_flight(flights, "price") returns a flight of minimum price, the
\* earliest such flight of the list when several share the minimum, and returns
\* None for an empty list.
C16_BestFlightByPrice ==
    (flight_call # None /\ flight_call.some.preference = "price") =>
       LET fl == flight_call.some.flights IN
       IF fl = <<>> THEN best_flight = None
       ELSE /\ best_flight # None
            /\ best_flight.some.price = SetMin(CallPrices)
            /\ \E i \in 1..Len(fl) :
                  /\ fl[i] = best_flight.some
                  /\ \A j \in 1..(i - 1) : fl[j].price > fl[i].price

C16_Witness ==
    /\ flight_call # None
    /\ flight_call.some.preference = "price"
    /\ Len(flight_call.some.flights) = 3
    /\ flight_call.some.flights[1].airline = "Mock Airlines"
    /\ flight_call.some.flights[2].airline = "Low Cost Wings"
    /\ flight_call.some.flights[3].airline = "Budget Air"
    /\ best_flight # None
    /\ best_flight.some.airline = "Low Cost Wings"

\* the activities of a day hold exactly one breakfast, first, and exactly one
\* dinner, last
MealsFramed(acts) ==
    /\ Len(acts) >= 2
    /\ acts[1].type = "breakfast"
    /\ acts[Len(acts)].type = "dinner"
    /\ Cardinality({i \in 1..Len(acts) : acts[i].type = "breakfast"}) = 1
    /\ Cardinality({i \in 1..Len(acts) : acts[i].type = "dinner"}) = 1

\* the activities of a day are in non-decreasing order of time
InTimeOrder(acts) ==
    \A i, j \in 1..Len(acts) : i < j => TimeOfDay(acts[i]) <= TimeOfDay(acts[j])

\* C17 as claimed: after create_itinerary and any add_activity calls every DayPlan
\* has exactly one breakfast, first, and exactly one dinner, last.
C17_MealsFramedAlways ==
    itinerary # None =>
       \A k \in 1..Len(itinerary.some.days) : MealsFramed(itinerary.some.days[k].activities)

\* C17 as amended: every DayPlan returned by create_itinerary has exactly one
\* breakfast, first, and exactly one dinner, last; add_activity keeps that on
\* every day it does not touch, and on the day it re-sorts when that day was in
\* time order and the added activity is no meal and has a time from 09:00 up to,
\* not including, 19:00.
C17_MealsFramedUnlessResorted ==
    /\ CreateReturned =>
          \A k \in 1..Len(itinerary.some.days) : MealsFramed(itinerary.some.days[k].activities)
    /\ AddReturned =>
          LET old == itin_before.some.days
              new == itinerary.some.days
              a == itin_call.activity
          IN \A k \in 1..Len(old) :
                (/\ MealsFramed(old[k].activities)
                 /\ \/ k # itin_call.day_number
                    \/ /\ InTimeOrder(old[k].activities)
                       /\ a.type \notin {"breakfast", "dinner"}
                       /\ TimeOfDay(a) >= Minutes(T0900)
                       /\ TimeOfDay(a) < Minutes(T1900))
                => MealsFramed(new[k].activities)

C17_Witness ==
    /\ AddReturned
    /\ itin_call.day_number = 1
    /\ itin_call.activity.description = <<"Coffee">>
    /\ adds = 2
    /\ Len(itin_before.some.days) = 2
    /\ \E i \in 1..Len(itin_before.some.days[1].activities) :
          itin_before.some.days[1].activities[i].description = <<"Lunch">>
    /\ MealsFramed(itinerary.some.days[1].activities)
    /\ itinerary.some.days[1].activities[2] = itin_call.activity

\* the floats next to a positive float, above and below
FloatNext(f) ==
    IF f.m = BigSub(BigPow2(53), <<1>>) THEN [m |-> BigPow2(52), e |-> f.e + 1]
    ELSE [m |-> BigAdd(f.m, <<1>>), e |-> f.e]

FloatPrev(f) ==
    IF f.m = BigPow2(52) THEN [m |-> BigSub(BigPow2(53), <<1>>), e |-> f.e - 1]
    ELSE [m |-> BigSub(f.m, <<1>>), e |-> f.e]

\* the floats at most n units in the last place away from f
RECURSIVE UlpBall(_, _)
UlpBall(f, n) ==
    IF n = 0 THEN {f}
    ELSE LET inner == UlpBall(f, n - 1)
         IN inner \cup { FloatNext(g) : g \in inner } \cup { FloatPrev(g) : g \in inner }

InTable(code) == \E item \in EXCHANGE_RATES : item[1] = code

RateOf(code) == FloatOf((CHOOSE item \in EXCHANGE_RATES : item[1] = code)[2])

\* convert between two currencies of the table reports rate(A) / rate(B) and
\* gives x * rate(A) / rate(B), in float arithmetic
BridgedConversion ==
    (conversion # None /\ InTable(conversion.some.original_currency) /\ InTable(conversion.some.converted_currency))
    => LET c == conversion.some
           rate_a == RateOf(c.original_currency)
           rate_b == RateOf(c.converted_currency)
       IN /\ c.exchange_rate = FDiv(rate_a, rate_b)
          /\ c.converted_amount = FDiv(FMul(c.original_amount, rate_a), rate_b)

\* get_exchange_rate between two currencies of the table gives rate(A) / rate(B)
BridgedRate ==
    (rate_info # None /\ InTable(rate_info.some.from_currency) /\ InTable(rate_info.some.to_currency))
    => rate_info.some.rate = FDiv(RateOf(rate_info.some.from_currency), RateOf(rate_info.some.to_currency))

SelfConversion ==
    /\ conversion # None
    /\ InTable(conversion.some.original_currency)
    /\ conversion.some.original_currency = conversion.some.converted_currency

\* C14 as stated: conversion is routed through the base currency (rate(A) /
\* rate(B) from convert and from get_exchange_rate, x * rate(A) / rate(B) as the
\* amount), and converting a currency to itself returns the amount unchanged
\* with rate 1.
C14_SelfConversionUnchanged ==
    /\ BridgedConversion
    /\ BridgedRate
    /\ SelfConversion =>
           /\ conversion.some.exchange_rate = FromInt(1)
           /\ conversion.some.converted_amount = conversion.some.original_amount

\* C14, amended: conversion is routed through the base currency as above, and
\* converting a currency to itself reports rate 1 and returns an amount at most
\* one unit in the last place away from the amount given.
C14_SelfConversionWithinOneUlp ==
    /\ BridgedConversion
    /\ BridgedRate
    /\ SelfConversion =>
           /\ conversion.some.exchange_rate = FromInt(1)
           /\ conversion.some.converted_amount \in UlpBall(conversion.some.original_amount, 1)

\* a currency of the table converted to itself came back changed, and the rate
\* of the pair was asked for
C14_Witness ==
    /\ SelfConversion
    /\ rate_info # None
    /\ conversion.some.converted_amount # conversion.some.original_amount

RoundTripInTable ==
    /\ back_conversion # None
    /\ InTable(conversion.some.original_currency)
    /\ InTable(conversion.some.converted_currency)

\* C15: converting X from A to B and the result back from B to A, for two
\* currencies of the table, yields X within rounding tolerance: at most four
\* units in the last place away (four rounded operations).
C15_RoundTrip ==
    RoundTripInTable =>
        back_conversion.some.converted_amount \in UlpBall(conversion.some.original_amount, 4)

\* a round trip between two different currencies of the table that did not
\* give X back exactly
C15_Witness ==
    /\ RoundTripInTable
    /\ conversion.some.original_currency # conversion.some.converted_currency
    /\ back_conversion.some.converted_currency = conversion.some.original_currency
    /\ back_conversion.some.converted_amount # conversion.some.original_amount

\* the entry of live_data under a key: None when live_data is None or lacks it
LiveSignal(key) ==
    IF detect_call.some.live_data = None THEN None
    ELSE DictGet(detect_call.some.live_data.some, key)

\* one <<type, severity>> per rule that matches, in the order of the rules
MatchedRules ==
    (IF LiveSignal("flight_cancelled") = Some(TRUE)
     THEN << <<"flight_cancelled", "high">> >> ELSE <<>>)
    \o (IF LiveSignal("flight_delayed_hours") # None /\ LiveSignal("flight_delayed_hours").some > 3
        THEN << <<"flight_delayed", "medium">> >> ELSE <<>>)
    \o (IF LiveSignal("severe_weather") # None
        THEN << <<"severe_weather", "medium">> >> ELSE <<>>)

ReportKinds ==
    [i \in 1..Len(report.some.disruptions) |->
        <<report.some.disruptions[i].disruption_type, report.some.disruptions[i].severity>>]

\* C21: the report of detect_disruptions has exactly one disruption per matched
\* rule, in the order cancelled (high), delayed by more than 3 hours (medium),
\* severe_weather object present (medium), and nothing else; with no rule
\* matched it has no disruptions, risk_score 0 and requires_replanning false.
C21_OneDisruptionPerRule ==
    report # None =>
       /\ ReportKinds = MatchedRules
       /\ MatchedRules = <<>> =>
             /\ report.some.disruptions = <<>>
             /\ report.some.risk_score = 0
             /\ ~report.some.requires_replanning

\* the activities of a list that have a type, in list order
OfType(list, type) == SelectSeq(list, LAMBDA a : a.type = type)

\* attractions_per_day for a non-empty attraction list and N >= 1 days
PerDay == Max2(1, Len(itin_call.attractions) \div Len(itinerary.some.days))

\* the attractions whose 0-based index is in [(k-1) * PerDay, k * PerDay), in
\* their original order: the slice of the k-th day
SliceOfDay(k) ==
    LET count == Cardinality({j \in 1..Len(itin_call.attractions) :
                                 (k - 1) * PerDay < j /\ j <= k * PerDay})
    IN [n \in 1..count |-> itin_call.attractions[(k - 1) * PerDay + n]]

\* the number of attraction activities, over all days, that visit an attraction
VisitsOf(attraction) ==
    Cardinality({ kn \in (1..Len(itinerary.some.days)) \X (1..Len(itin_call.attractions) + 2) :
                    /\ kn[2] <= Len(itinerary.some.days[kn[1]].activities)
                    /\ itinerary.some.days[kn[1]].activities[kn[2]].type = "attraction"
                    /\ itinerary.some.days[kn[1]].activities[kn[2]].description
                          = <<"Visit", attraction.name>> })

\* C22: with a non-empty attraction list and N days, the attraction activities of
\* day i (0-based) are exactly the attractions at indices [i * per_day, (i + 1) *
\* per_day) in their original order, per_day = max(1, floor(len / N)); every
\* attraction is scheduled on at most one day and those at index >= N * per_day
\* on no day.
C22_SlicePerDay ==
    (CreateReturned /\ itin_call.attractions # <<>> /\ Len(itinerary.some.days) >= 1) =>
       /\ \A k \in 1..Len(itinerary.some.days) :
             [n \in 1..Len(OfType(itinerary.some.days[k].activities, "attraction")) |->
                 OfType(itinerary.some.days[k].activities, "attraction")[n].description]
             = [n \in 1..Len(SliceOfDay(k)) |-> <<"Visit", SliceOfDay(k)[n].name>>]
       /\ \A j \in 1..Len(itin_call.attractions) :
             /\ VisitsOf(itin_call.attractions[j]) <= 1
             /\ j > Len(itinerary.some.days) * PerDay => VisitsOf(itin_call.attractions[j]) = 0

\* two days and five attractions: two a day, the fifth on no day
C22_Witness ==
    /\ CreateReturned
    /\ Len(itinerary.some.days) = 2
    /\ Len(itin_call.attractions) = 5
    /\ Len(OfType(itinerary.some.days[2].activities, "attraction")) = 2
    /\ VisitsOf(itin_call.attractions[5]) = 0

\* C23: a day whose slice is empty has exactly breakfast, one generic exploration
\* activity at 10:00 and dinner; a day whose slice is not empty has no exploration
\* activity; every day has at least three activities.
C23_ExplorationIffEmptySlice ==
    (CreateReturned /\ Len(itinerary.some.days) >= 1) =>
       \A k \in 1..Len(itinerary.some.days) :
          LET acts == itinerary.some.days[k].activities
              empty_slice == itin_call.attractions = <<>> \/ Len(SliceOfDay(k)) = 0
          IN /\ Len(acts) >= 3
             /\ empty_slice =>
                   /\ Len(acts) = 3
                   /\ acts[1].type = "breakfast"
                   /\ acts[2].type = "exploration" /\ Minutes(acts[2].time) = 600
                   /\ acts[3].type = "dinner"
             /\ ~empty_slice => Len(OfType(acts, "exploration")) = 0

\* three days and two attractions: one on each of the first two days, and the
\* third day, for which none is left, explores
C23_Witness ==
    /\ CreateReturned
    /\ Len(itinerary.some.days) = 3
    /\ Len(itin_call.attractions) = 2
    /\ Len(OfType(itinerary.some.days[1].activities, "exploration")) = 0
    /\ Len(OfType(itinerary.some.days[3].activities, "exploration")) = 1

\* C24: in every DayPlan of create_itinerary the attraction activities come after
\* breakfast and before dinner, in the order of the day's slice, and the j-th of
\* them (j = 0, 1, ...) has time 10:00 plus 3 * j hours.
C24_AttractionTimes ==
    (CreateReturned /\ itin_call.attractions # <<>> /\ Len(itinerary.some.days) >= 1) =>
       \A k \in 1..Len(itinerary.some.days) :
          LET acts == itinerary.some.days[k].activities IN
          /\ acts[1].type = "breakfast"
          /\ acts[Len(acts)].type = "dinner"
          /\ \A n \in 1..Len(SliceOfDay(k)) :
                /\ acts[1 + n].type = "attraction"
                /\ acts[1 + n].description = <<"Visit", SliceOfDay(k)[n].name>>
                /\ Len(acts[1 + n].time) = 5
                /\ Minutes(acts[1 + n].time) = 60 * (10 + 3 * (n - 1))

\* one day with three attractions: at 10:00, 13:00 and 16:00
C24_Witness ==
    /\ CreateReturned
    /\ Len(itinerary.some.days) = 1
    /\ Len(itin_call.attractions) = 3
    /\ itinerary.some.days[1].activities[4].time = <<"1", "6", ":", "0", "0">>

\* C29: in every DayPlan returned by create_itinerary the activities are in
\* non-decreasing time-of-day order, so no attraction activity is timed later
\* than the 19:00 dinner.
C29_CreatedInTimeOrder ==
    CreateReturned =>
       \A k \in 1..Len(itinerary.some.days) : InTimeOrder(itinerary.some.days[k].activities)

\* C25: after any sequence of changes to the allocations or the total of a
\* BudgetBreakdown, its remaining is total_budget minus the sum of the five
\* allocations.
C25_RemainingFollowsAllocations ==
    held # None =>
       held.some.remaining =
          held.some.total_budget
          - (held.some.accommodation + held.some.transportation + held.some.food
             + held.some.activities + held.some.emergency_fund)

\* C26: for any priorities mapping given to optimize_budget, a partial one
\* included, the five allocations sum to at most total_budget, and remaining is
\* not negative for a positive total_budget.
C26_AllocationsWithinTotal ==
    (breakdown # None /\ budget_call.total_budget > 0) =>
       LET b == breakdown.some IN
       /\ b.accommodation + b.transportation + b.food + b.activities + b.emergency_fund
             <= b.total_budget
       /\ b.remaining >= 0

\* the value score as the specification writes it: (rating * (feature_count + 1)) / max(price, 1)
StatedScore(option) ==
    FDiv(FMul(OptionGet(option, "rating", FromInt(3)), FromInt(Len(OptionGet(option, "features", <<>>)) + 1)),
         IF FLess(FromInt(1), OptionGet(option, "price", FZero)) THEN OptionGet(option, "price", FZero) ELSE FromInt(1))

\* the candidates of the call priced at or under the budget, by position
Admitted == {i \in 1..Len(value_call.options) : ~FLess(value_call.budget, OptionGet(value_call.options[i], "price", FZero))}

\* the place of candidate i when the admitted are ordered by score, highest first, ties in candidate order
PlaceOf(i, scores) ==
    1 + Cardinality({j \in Admitted : FLess(scores[i], scores[j]) \/ (scores[j] = scores[i] /\ j < i)})

\* an entry of the result stands for a candidate: same name, price and features
EntryOf(found, option) ==
    /\ found.name = OptionGet(option, "name", "Unknown")
    /\ found.price = OptionGet(option, "price", FZero)
    /\ found.features = OptionGet(option, "features", <<>>)

\* C27: find_best_value_options returns exactly one entry for each option priced
\* at or under budget and none for an option priced above it, ordered by the value
\* score (rating * (feature_count + 1)) / max(price, 1) from highest to lowest,
\* options of equal score in their original candidate order
C27_BestValueOrder ==
    value_call # None =>
        LET scores == [i \in 1..Len(value_call.options) |-> StatedScore(value_call.options[i])]
        IN /\ Len(best_options) = Cardinality(Admitted)
           /\ \A i \in Admitted : EntryOf(best_options[PlaceOf(i, scores)], value_call.options[i])

\* the options a result selected in one category
RECURSIVE InCategory(_, _)
InCategory(options, category) ==
    IF options = <<>> THEN <<>>
    ELSE IF options[1].category = category THEN <<options[1]>> \o InCategory(Tail(options), category)
    ELSE InCategory(Tail(options), category)

SelectedIn(category) == InCategory(optimization.some.optimized_options, category)

\* at most three options are selected per category
AtMostThreePerCategory ==
    \A category \in {"accommodation", "transportation", "activities"} : Len(SelectedIn(category)) <= 3

\* each selected option is priced no higher than its category's allocation in the breakdown
WithinAllocation ==
    \A category \in {"accommodation", "transportation", "activities"} :
        \A k \in 1..Len(SelectedIn(category)) :
            ~FLess(Decimal(optimization.some.breakdown[category], 100), SelectedIn(category)[k].price)

\* estimated_total does not exceed total_budget and potential_savings is not negative
WithinTotal ==
    /\ ~FLess(FromInt(optimize_call.total_budget), optimization.some.estimated_total)
    /\ ~optimization.some.potential_savings.negative

\* C30: for every result of optimize_itinerary at most three options are selected
\* per category, each selected option is priced no higher than its category's
\* allocation, and estimated_total never exceeds total_budget, so potential_savings
\* is never negative
C30_SelectionWithinBudget ==
    optimization # None => AtMostThreePerCategory /\ WithinAllocation /\ WithinTotal

\* the agents one process_request call invokes, in the order the claim gives
AgentOrder ==
    (IF request.origin # "" THEN <<"flight">> ELSE <<>>) \o <<"hotel", "attraction", "itinerary">>

\* a is the start of b
IsPrefix(a, b) == Len(a) <= Len(b) /\ a = SubSeq(b, 1, Len(a))

\* how often an agent was invoked
Invocations(agent) == Cardinality({i \in 1..Len(calls) : calls[i] = agent})

====
